---------------------------- MODULE Spec2Model ----------------------------
(***************************************************************************)
(* Model of contour's box-drawing glyph synthesis                          *)
(* (src/terminal_renderer/BoxDrawingRenderer.cpp): the box descriptor      *)
(* table, the ratio-block algebra, the edge / dash / diagonal / arc        *)
(* rasterizers, the supersampling path and the cache lookup in front of    *)
(* them.                                                                   *)
(*                                                                         *)
(* Buffers (atlas::Buffer) are functions from 0..n-1 to bytes.  An         *)
(* optional<T> is a sequence of length 0 (nullopt) or 1.  Ratios are the   *)
(* float values of the source kept as exact fractions <<num, den>>; every  *)
(* ratio of the source is a multiple of 1/8 or of 1/3 and for those        *)
(* int(float(size) * ratio) equals (size * num) \div den.                  *)
(***************************************************************************)
EXTENDS Integers, Sequences, FiniteSets, TLC

\* ------------------------------------------------------------------ bounds
MaxCell == 5
MaxThickness == 2
MaxBlockCell == 6

\* ------------------------------------------------------- optional, buffers
NullOpt == << >>
Some(v) == << v >>
HasValue(o) == Len(o) = 1
Value(o) == o[1]

ImageSize(w, h) == [width |-> w, height |-> h]

\* atlas::Buffer(n, 0x00)
Buffer(n) == [i \in 0..(n - 1) |-> 0]
BufferSize(b) == Cardinality(DOMAIN b)

\* image[i] = 0xFF for every i of writes that lies inside the buffer
WriteAll(image, writes) == [i \in DOMAIN image |-> IF i \in writes THEN 255 ELSE image[i]]

Min(a, b) == IF a < b THEN a ELSE b
Max(a, b) == IF a > b THEN a ELSE b

\* C++ integer division (truncation toward zero)
Div(a, b) == IF a >= 0 THEN a \div b ELSE -((-a) \div b)

\* ------------------------------------------------------------- style table
Lines == {"NoLine", "Light", "Light2", "Light3", "Light4", "Double", "Heavy", "Heavy2", "Heavy3", "Heavy4"}
Diagonals == {"NoDiagonal", "Forward", "Backward", "Crossing"}
Arcs == {"NoArc", "TopLeft", "TopRight", "BottomRight", "BottomLeft"}

Box0 == [up_ |-> "NoLine", right_ |-> "NoLine", down_ |-> "NoLine", left_ |-> "NoLine",
         diagonal_ |-> "NoDiagonal", arc_ |-> "NoArc"]
BoxUp(b, v) == [b EXCEPT !.up_ = v]
BoxRight(b, v) == [b EXCEPT !.right_ = v]
BoxDown(b, v) == [b EXCEPT !.down_ = v]
BoxLeft(b, v) == [b EXCEPT !.left_ = v]
BoxDiagonal(b, v) == [b EXCEPT !.diagonal_ = v]
\* arc() also setting the upper edge
BoxArc_WithEdge(b, v) == [b EXCEPT !.arc_ = v, !.up_ = "Light"]

BoxArc(b, v) == [b EXCEPT !.arc_ = v]
BoxVertical(b, v) == [b EXCEPT !.up_ = v, !.down_ = v]
BoxHorizontal(b, v) == [b EXCEPT !.left_ = v, !.right_ = v]

\* get_dashed without the heavy dash cases
get_dashed_NoHeavy(a, b) ==
    IF a # b THEN NullOpt
    ELSE CASE a = "Light2" -> Some(<<2, "Light">>)
           [] a = "Light3" -> Some(<<3, "Light">>)
           [] a = "Light4" -> Some(<<4, "Light">>)
           [] OTHER -> NullOpt

\* optional<pair<count, Thickness>>
get_dashed(a, b) ==
    IF a # b THEN NullOpt
    ELSE CASE a = "Light2" -> Some(<<2, "Light">>)
           [] a = "Light3" -> Some(<<3, "Light">>)
           [] a = "Light4" -> Some(<<4, "Light">>)
           [] a = "Heavy2" -> Some(<<2, "Heavy">>)
           [] a = "Heavy3" -> Some(<<3, "Heavy">>)
           [] a = "Heavy4" -> Some(<<4, "Heavy">>)
           [] OTHER -> NullOpt

get_dashed_horizontal(box) == get_dashed(box.left_, box.right_)
get_dashed_vertical(box) == get_dashed(box.up_, box.down_)

BoxBase == 9472     \* 0x2500
BoxLast == 9599     \* 0x257F

\* entry k (1-based) describes U+2500 + (k - 1)
boxDrawingDefinitions ==
   <<
      BoxHorizontal(Box0, "Light"),  \* U+2500
      BoxHorizontal(Box0, "Heavy"),  \* U+2501
      BoxVertical(Box0, "Light"),  \* U+2502
      BoxVertical(Box0, "Heavy"),  \* U+2503
      BoxHorizontal(Box0, "Light3"),  \* U+2504
      BoxHorizontal(Box0, "Heavy3"),  \* U+2505
      BoxVertical(Box0, "Light3"),  \* U+2506
      BoxVertical(Box0, "Heavy3"),  \* U+2507
      BoxHorizontal(Box0, "Light4"),  \* U+2508
      BoxHorizontal(Box0, "Heavy4"),  \* U+2509
      BoxVertical(Box0, "Light4"),  \* U+250A
      BoxVertical(Box0, "Heavy4"),  \* U+250B
      BoxDown(BoxRight(Box0, "Light"), "Light"),  \* U+250C
      BoxDown(BoxRight(Box0, "Heavy"), "Light"),  \* U+250D
      BoxDown(BoxRight(Box0, "Light"), "Heavy"),  \* U+250E
      BoxDown(BoxRight(Box0, "Heavy"), "Heavy"),  \* U+250F
      BoxLeft(BoxDown(Box0, "Light"), "Light"),  \* U+2510
      BoxLeft(BoxDown(Box0, "Light"), "Heavy"),  \* U+2511
      BoxLeft(BoxDown(Box0, "Heavy"), "Light"),  \* U+2512
      BoxLeft(BoxDown(Box0, "Heavy"), "Heavy"),  \* U+2513
      BoxRight(BoxUp(Box0, "Light"), "Light"),  \* U+2514
      BoxRight(BoxUp(Box0, "Light"), "Heavy"),  \* U+2515
      BoxRight(BoxUp(Box0, "Heavy"), "Light"),  \* U+2516
      BoxRight(BoxUp(Box0, "Heavy"), "Heavy"),  \* U+2517
      BoxLeft(BoxUp(Box0, "Light"), "Light"),  \* U+2518
      BoxLeft(BoxUp(Box0, "Light"), "Heavy"),  \* U+2519
      BoxLeft(BoxUp(Box0, "Heavy"), "Light"),  \* U+251A
      BoxLeft(BoxUp(Box0, "Heavy"), "Heavy"),  \* U+251B
      BoxRight(BoxVertical(Box0, "Light"), "Light"),  \* U+251C
      BoxRight(BoxVertical(Box0, "Light"), "Heavy"),  \* U+251D
      BoxDown(BoxRight(BoxUp(Box0, "Heavy"), "Light"), "Light"),  \* U+251E
      BoxDown(BoxRight(BoxUp(Box0, "Light"), "Light"), "Heavy"),  \* U+251F
      BoxRight(BoxVertical(Box0, "Heavy"), "Light"),  \* U+2520
      BoxDown(BoxRight(BoxUp(Box0, "Heavy"), "Heavy"), "Light"),  \* U+2521
      BoxDown(BoxRight(BoxUp(Box0, "Light"), "Heavy"), "Heavy"),  \* U+2522
      BoxDown(BoxRight(BoxUp(Box0, "Heavy"), "Heavy"), "Heavy"),  \* U+2523
      BoxLeft(BoxVertical(Box0, "Light"), "Light"),  \* U+2524
      BoxLeft(BoxVertical(Box0, "Light"), "Heavy"),  \* U+2525
      BoxLeft(BoxDown(BoxUp(Box0, "Heavy"), "Light"), "Light"),  \* U+2526
      BoxLeft(BoxDown(BoxUp(Box0, "Light"), "Heavy"), "Light"),  \* U+2527
      BoxLeft(BoxDown(BoxUp(Box0, "Heavy"), "Heavy"), "Light"),  \* U+2528
      BoxLeft(BoxDown(BoxUp(Box0, "Heavy"), "Light"), "Heavy"),  \* U+2529
      BoxLeft(BoxDown(BoxUp(Box0, "Light"), "Heavy"), "Heavy"),  \* U+252A
      BoxLeft(BoxDown(BoxUp(Box0, "Heavy"), "Heavy"), "Heavy"),  \* U+252B
      BoxLeft(BoxDown(BoxRight(Box0, "Light"), "Light"), "Light"),  \* U+252C
      BoxLeft(BoxDown(BoxRight(Box0, "Light"), "Light"), "Heavy"),  \* U+252D
      BoxLeft(BoxDown(BoxRight(Box0, "Heavy"), "Light"), "Light"),  \* U+252E
      BoxLeft(BoxDown(BoxRight(Box0, "Heavy"), "Light"), "Heavy"),  \* U+252F
      BoxLeft(BoxDown(BoxRight(Box0, "Light"), "Heavy"), "Light"),  \* U+2530
      BoxLeft(BoxDown(BoxRight(Box0, "Light"), "Heavy"), "Heavy"),  \* U+2531
      BoxLeft(BoxDown(BoxRight(Box0, "Heavy"), "Heavy"), "Light"),  \* U+2532
      BoxLeft(BoxDown(BoxRight(Box0, "Heavy"), "Heavy"), "Heavy"),  \* U+2533
      BoxLeft(BoxRight(BoxUp(Box0, "Light"), "Light"), "Light"),  \* U+2534
      BoxLeft(BoxRight(BoxUp(Box0, "Light"), "Light"), "Heavy"),  \* U+2535
      BoxLeft(BoxRight(BoxUp(Box0, "Light"), "Heavy"), "Light"),  \* U+2536
      BoxLeft(BoxRight(BoxUp(Box0, "Light"), "Heavy"), "Heavy"),  \* U+2537
      BoxLeft(BoxRight(BoxUp(Box0, "Heavy"), "Light"), "Light"),  \* U+2538
      BoxLeft(BoxRight(BoxUp(Box0, "Heavy"), "Light"), "Heavy"),  \* U+2539
      BoxLeft(BoxRight(BoxUp(Box0, "Heavy"), "Heavy"), "Light"),  \* U+253A
      BoxLeft(BoxRight(BoxUp(Box0, "Heavy"), "Heavy"), "Heavy"),  \* U+253B
      BoxLeft(BoxDown(BoxRight(BoxUp(Box0, "Light"), "Light"), "Light"), "Light"),  \* U+253C
      BoxLeft(BoxDown(BoxRight(BoxUp(Box0, "Light"), "Light"), "Light"), "Heavy"),  \* U+253D
      BoxLeft(BoxDown(BoxRight(BoxUp(Box0, "Light"), "Heavy"), "Light"), "Light"),  \* U+253E
      BoxLeft(BoxDown(BoxRight(BoxUp(Box0, "Light"), "Heavy"), "Light"), "Heavy"),  \* U+253F
      BoxLeft(BoxDown(BoxRight(BoxUp(Box0, "Heavy"), "Light"), "Light"), "Heavy"),  \* U+2540
      BoxLeft(BoxDown(BoxRight(BoxUp(Box0, "Light"), "Light"), "Heavy"), "Light"),  \* U+2541
      BoxLeft(BoxDown(BoxRight(BoxUp(Box0, "Heavy"), "Light"), "Heavy"), "Light"),  \* U+2542
      BoxLeft(BoxDown(BoxRight(BoxUp(Box0, "Heavy"), "Light"), "Light"), "Heavy"),  \* U+2543
      BoxLeft(BoxDown(BoxRight(BoxUp(Box0, "Heavy"), "Heavy"), "Light"), "Light"),  \* U+2544
      BoxLeft(BoxDown(BoxRight(BoxUp(Box0, "Light"), "Light"), "Heavy"), "Heavy"),  \* U+2545
      BoxLeft(BoxDown(BoxRight(BoxUp(Box0, "Light"), "Heavy"), "Heavy"), "Light"),  \* U+2546
      BoxLeft(BoxDown(BoxRight(BoxUp(Box0, "Heavy"), "Heavy"), "Light"), "Heavy"),  \* U+2547
      BoxLeft(BoxDown(BoxRight(BoxUp(Box0, "Light"), "Heavy"), "Heavy"), "Heavy"),  \* U+2548
      BoxLeft(BoxDown(BoxRight(BoxUp(Box0, "Heavy"), "Light"), "Heavy"), "Heavy"),  \* U+2549
      BoxLeft(BoxDown(BoxRight(BoxUp(Box0, "Heavy"), "Heavy"), "Heavy"), "Light"),  \* U+254A
      BoxLeft(BoxDown(BoxRight(BoxUp(Box0, "Heavy"), "Heavy"), "Heavy"), "Heavy"),  \* U+254B
      BoxHorizontal(Box0, "Light2"),  \* U+254C
      BoxHorizontal(Box0, "Heavy2"),  \* U+254D
      BoxVertical(Box0, "Light2"),  \* U+254E
      BoxVertical(Box0, "Heavy2"),  \* U+254F
      BoxHorizontal(Box0, "Double"),  \* U+2550
      BoxVertical(Box0, "Double"),  \* U+2551
      BoxDown(BoxRight(Box0, "Double"), "Light"),  \* U+2552
      BoxDown(BoxRight(Box0, "Light"), "Double"),  \* U+2553
      BoxDown(BoxRight(Box0, "Double"), "Double"),  \* U+2554
      BoxLeft(BoxDown(Box0, "Light"), "Double"),  \* U+2555
      BoxLeft(BoxDown(Box0, "Double"), "Light"),  \* U+2556
      BoxLeft(BoxDown(Box0, "Double"), "Double"),  \* U+2557
      BoxRight(BoxUp(Box0, "Light"), "Double"),  \* U+2558
      BoxRight(BoxUp(Box0, "Double"), "Light"),  \* U+2559
      BoxRight(BoxUp(Box0, "Double"), "Double"),  \* U+255A
      BoxLeft(BoxUp(Box0, "Light"), "Double"),  \* U+255B
      BoxLeft(BoxUp(Box0, "Double"), "Light"),  \* U+255C
      BoxLeft(BoxUp(Box0, "Double"), "Double"),  \* U+255D
      BoxDown(BoxRight(BoxUp(Box0, "Light"), "Double"), "Light"),  \* U+255E
      BoxDown(BoxRight(BoxUp(Box0, "Double"), "Light"), "Double"),  \* U+255F
      BoxRight(BoxVertical(Box0, "Double"), "Double"),  \* U+2560
      BoxLeft(BoxVertical(Box0, "Light"), "Double"),  \* U+2561
      BoxLeft(BoxVertical(Box0, "Double"), "Light"),  \* U+2562
      BoxLeft(BoxVertical(Box0, "Double"), "Double"),  \* U+2563
      BoxDown(BoxHorizontal(Box0, "Double"), "Light"),  \* U+2564
      BoxDown(BoxHorizontal(Box0, "Light"), "Double"),  \* U+2565
      BoxDown(BoxHorizontal(Box0, "Double"), "Double"),  \* U+2566
      BoxUp(BoxHorizontal(Box0, "Double"), "Light"),  \* U+2567
      BoxUp(BoxHorizontal(Box0, "Light"), "Double"),  \* U+2568
      BoxUp(BoxHorizontal(Box0, "Double"), "Double"),  \* U+2569
      BoxVertical(BoxHorizontal(Box0, "Double"), "Light"),  \* U+256A
      BoxVertical(BoxHorizontal(Box0, "Light"), "Double"),  \* U+256B
      BoxVertical(BoxHorizontal(Box0, "Double"), "Double"),  \* U+256C
      BoxArc(Box0, "TopLeft"),  \* U+256D
      BoxArc(Box0, "TopRight"),  \* U+256E
      BoxArc(Box0, "BottomRight"),  \* U+256F
      BoxArc(Box0, "BottomLeft"),  \* U+2570
      BoxDiagonal(Box0, "Forward"),  \* U+2571
      BoxDiagonal(Box0, "Backward"),  \* U+2572
      BoxDiagonal(Box0, "Crossing"),  \* U+2573
      BoxLeft(Box0, "Light"),  \* U+2574
      BoxUp(Box0, "Light"),  \* U+2575
      BoxRight(Box0, "Light"),  \* U+2576
      BoxDown(Box0, "Light"),  \* U+2577
      BoxLeft(Box0, "Heavy"),  \* U+2578
      BoxUp(Box0, "Heavy"),  \* U+2579
      BoxRight(Box0, "Heavy"),  \* U+257A
      BoxDown(Box0, "Heavy"),  \* U+257B
      BoxLeft(BoxRight(Box0, "Heavy"), "Light"),  \* U+257C
      BoxDown(BoxUp(Box0, "Light"), "Heavy"),  \* U+257D
      BoxLeft(BoxRight(Box0, "Light"), "Heavy"),  \* U+257E
      BoxDown(BoxUp(Box0, "Heavy"), "Light")   \* U+257F
   >>

\* boxDrawingDefinitions[i] of the std::array, i zero-based and in range
BoxAt(i) == boxDrawingDefinitions[i + 1]

\* ---------------------------------------------------- ratio-block algebra
Th(a, b) == <<a, b>>                     \* a/b_th
RatioZero == <<0, 1>>
RatioOne == <<1, 1>>
OneMinus(r) == <<r[2] - r[1], r[2]>>     \* 1 - r
RatioTimes(r, n) == <<r[1] * n, r[2]>>   \* r * float(n)
RatioIsZero(r) == r[1] = 0
RatioLess(a, b) == a[1] * b[2] < b[1] * a[2]
\* int(unbox<float>(size) * r)
Scale(size, r) == Div(size * r[1], r[2])

Ratio(x, y) == [x |-> x, y |-> y]
RatioBlock(from, to) == [from |-> from, to |-> to]

lower(r) == RatioBlock(Ratio(RatioZero, RatioZero), Ratio(RatioOne, r))
\* upper with the rows of lower
upper_FromZero(r) == RatioBlock(Ratio(RatioZero, RatioZero), Ratio(RatioOne, r))
upper(r) == RatioBlock(Ratio(RatioZero, OneMinus(r)), Ratio(RatioOne, RatioOne))
left(r) == RatioBlock(Ratio(RatioZero, RatioZero), Ratio(r, RatioOne))
right(r) == RatioBlock(Ratio(OneMinus(r), RatioZero), Ratio(RatioOne, RatioOne))

horiz_nth(r, n) == RatioBlock(Ratio(RatioZero, OneMinus(RatioTimes(r, n))),
                              Ratio(RatioOne, OneMinus(RatioTimes(r, n - 1))))
vert_nth(r, n) == RatioBlock(Ratio(RatioTimes(r, n - 1), RatioZero),
                             Ratio(RatioTimes(r, n), RatioOne))

merge(x, y) ==
    IF RatioIsZero(x) THEN y
    ELSE IF RatioIsZero(y) THEN x
    ELSE IF RatioLess(y, x) THEN y ELSE x

\* operator*(RatioBlock, RatioBlock)
RatioBlockMul(a, b) ==
    RatioBlock(Ratio(merge(a.from.x, b.from.x), merge(a.from.y, b.from.y)),
               Ratio(merge(a.to.x, b.to.x), merge(a.to.y, b.to.y)))

\* fillBlock with the last column of the rectangle left out
fillBlockWrites_ShortRow(size, from, to) ==
    { y * size.width + x :
        y \in Scale(size.height, from.y)..(Scale(size.height, to.y) - 1),
        x \in Scale(size.width, from.x)..(Scale(size.width, to.x) - 2) }

\* the indices fillBlock writes
fillBlockWrites(size, from, to) ==
    { y * size.width + x :
        y \in Scale(size.height, from.y)..(Scale(size.height, to.y) - 1),
        x \in Scale(size.width, from.x)..(Scale(size.width, to.x) - 1) }

fillBlock(image, size, from, to) == WriteAll(image, fillBlockWrites(size, from, to))

Pixmap(buffer, size) == [buffer |-> buffer, size |-> size]
\* blockElement allocating width * width bytes
blockElement_Square(size) == Pixmap(Buffer(size.width * size.width), size)
blockElement(size) == Pixmap(Buffer(size.width * size.height), size)

\* operator|(Pixmap, RatioBlock)
PixmapOrBlock(a, block) == fillBlock(a.buffer, a.size, block.from, block.to)

RECURSIVE fillBlocks(_, _, _)
fillBlocks(image, size, blocks) ==
    IF blocks = << >> THEN image
    ELSE fillBlocks(fillBlock(image, size, Head(blocks).from, Head(blocks).to), size, Tail(blocks))

\* operator|(Pixmap, MosaicBlock); the mosaic is the sequence operator+ builds
PixmapOrMosaic(a, blocks) == fillBlocks(a.buffer, a.size, blocks)

\* the rectangle of one sextant position, as fillBlock receives it
SextantBlock(position) ==
    LET x0 == (position - 1) % 2
        y0 == CASE position \in {1, 2} -> 2
                [] position \in {3, 4} -> 1
                [] position \in {5, 6} -> 0
                [] OTHER -> 0
    IN  RatioBlock(Ratio(Th(x0, 2), Th(y0, 3)), Ratio(Th(x0 + 1, 2), Th(y0 + 1, 3)))

RECURSIVE blockSextantFill(_, _, _)
blockSextantFill(image, size, positions) ==
    IF positions = << >> THEN image
    ELSE blockSextantFill(
            fillBlock(image, size, SextantBlock(Head(positions)).from, SextantBlock(Head(positions)).to),
            size, Tail(positions))

blockSextant(size, positions) == blockSextantFill(Buffer(size.width * size.height), size, positions)

\* buildElements returning an empty image where it has no case
buildElements_DefaultImage(cp, size) == Some(Buffer(size.width * size.height))

\* optional<atlas::Buffer> buildElements(codepoint), size = gridMetrics_.cellSize
buildElements(cp, size) ==
  CASE
       cp = 9121 -> Some(PixmapOrMosaic(blockElement(size), <<left(Th(1, 8)), RatioBlockMul(upper(Th(1, 8)), left(Th(1, 2)))>>))  \* U+23A1
    [] cp = 9122 -> Some(PixmapOrBlock(blockElement(size), left(Th(1, 8))))  \* U+23A2
    [] cp = 9123 -> Some(PixmapOrMosaic(blockElement(size), <<left(Th(1, 8)), RatioBlockMul(lower(Th(1, 8)), left(Th(1, 2)))>>))  \* U+23A3
    [] cp = 9124 -> Some(PixmapOrMosaic(blockElement(size), <<right(Th(1, 8)), RatioBlockMul(upper(Th(1, 8)), right(Th(1, 2)))>>))  \* U+23A4
    [] cp = 9125 -> Some(PixmapOrBlock(blockElement(size), right(Th(1, 8))))  \* U+23A5
    [] cp = 9126 -> Some(PixmapOrMosaic(blockElement(size), <<right(Th(1, 8)), RatioBlockMul(lower(Th(1, 8)), right(Th(1, 2)))>>))  \* U+23A6
    [] cp = 9600 -> Some(PixmapOrBlock(blockElement(size), upper(Th(1, 2))))  \* U+2580
    [] cp = 9601 -> Some(PixmapOrBlock(blockElement(size), lower(Th(1, 8))))  \* U+2581
    [] cp = 9602 -> Some(PixmapOrBlock(blockElement(size), lower(Th(1, 4))))  \* U+2582
    [] cp = 9603 -> Some(PixmapOrBlock(blockElement(size), lower(Th(3, 8))))  \* U+2583
    [] cp = 9604 -> Some(PixmapOrBlock(blockElement(size), lower(Th(1, 2))))  \* U+2584
    [] cp = 9605 -> Some(PixmapOrBlock(blockElement(size), lower(Th(5, 8))))  \* U+2585
    [] cp = 9606 -> Some(PixmapOrBlock(blockElement(size), lower(Th(3, 4))))  \* U+2586
    [] cp = 9607 -> Some(PixmapOrBlock(blockElement(size), lower(Th(7, 8))))  \* U+2587
    [] cp = 9608 -> Some(PixmapOrBlock(blockElement(size), lower(Th(1, 1))))  \* U+2588
    [] cp = 9609 -> Some(PixmapOrBlock(blockElement(size), left(Th(7, 8))))  \* U+2589
    [] cp = 9610 -> Some(PixmapOrBlock(blockElement(size), left(Th(3, 4))))  \* U+258A
    [] cp = 9611 -> Some(PixmapOrBlock(blockElement(size), left(Th(5, 8))))  \* U+258B
    [] cp = 9612 -> Some(PixmapOrBlock(blockElement(size), left(Th(1, 2))))  \* U+258C
    [] cp = 9613 -> Some(PixmapOrBlock(blockElement(size), left(Th(3, 8))))  \* U+258D
    [] cp = 9614 -> Some(PixmapOrBlock(blockElement(size), left(Th(1, 4))))  \* U+258E
    [] cp = 9615 -> Some(PixmapOrBlock(blockElement(size), left(Th(1, 8))))  \* U+258F
    [] cp = 9616 -> Some(PixmapOrBlock(blockElement(size), right(Th(1, 2))))  \* U+2590
    [] cp = 9620 -> Some(PixmapOrBlock(blockElement(size), upper(Th(1, 8))))  \* U+2594
    [] cp = 9621 -> Some(PixmapOrBlock(blockElement(size), right(Th(1, 8))))  \* U+2595
    [] cp = 9622 -> Some(PixmapOrBlock(blockElement(size), RatioBlockMul(lower(Th(1, 2)), left(Th(1, 2)))))  \* U+2596
    [] cp = 9623 -> Some(PixmapOrBlock(blockElement(size), RatioBlockMul(lower(Th(1, 2)), right(Th(1, 2)))))  \* U+2597
    [] cp = 9624 -> Some(PixmapOrBlock(blockElement(size), RatioBlockMul(left(Th(1, 2)), upper(Th(1, 2)))))  \* U+2598
    [] cp = 9625 -> Some(PixmapOrMosaic(blockElement(size), <<RatioBlockMul(left(Th(1, 2)), upper(Th(1, 2))), lower(Th(1, 2))>>))  \* U+2599
    [] cp = 9626 -> Some(PixmapOrMosaic(blockElement(size), <<RatioBlockMul(upper(Th(1, 2)), left(Th(1, 2))), RatioBlockMul(lower(Th(1, 2)), right(Th(1, 2)))>>))  \* U+259A
    [] cp = 9627 -> Some(PixmapOrMosaic(blockElement(size), <<upper(Th(1, 2)), RatioBlockMul(lower(Th(1, 2)), left(Th(1, 2)))>>))  \* U+259B
    [] cp = 9628 -> Some(PixmapOrMosaic(blockElement(size), <<upper(Th(1, 2)), RatioBlockMul(lower(Th(1, 2)), right(Th(1, 2)))>>))  \* U+259C
    [] cp = 9629 -> Some(PixmapOrBlock(blockElement(size), RatioBlockMul(upper(Th(1, 2)), right(Th(1, 2)))))  \* U+259D
    [] cp = 9630 -> Some(PixmapOrMosaic(blockElement(size), <<RatioBlockMul(upper(Th(1, 2)), right(Th(1, 2))), RatioBlockMul(lower(Th(1, 2)), left(Th(1, 2)))>>))  \* U+259E
    [] cp = 9631 -> Some(PixmapOrMosaic(blockElement(size), <<RatioBlockMul(upper(Th(1, 2)), right(Th(1, 2))), lower(Th(1, 2))>>))  \* U+259F
    [] cp = 129792 -> Some(blockSextant(size, <<1>>))  \* U+1FB00
    [] cp = 129793 -> Some(blockSextant(size, <<2>>))  \* U+1FB01
    [] cp = 129794 -> Some(blockSextant(size, <<1, 2>>))  \* U+1FB02
    [] cp = 129795 -> Some(blockSextant(size, <<3>>))  \* U+1FB03
    [] cp = 129796 -> Some(blockSextant(size, <<1, 3>>))  \* U+1FB04
    [] cp = 129797 -> Some(blockSextant(size, <<2, 3>>))  \* U+1FB05
    [] cp = 129798 -> Some(blockSextant(size, <<1, 2, 3>>))  \* U+1FB06
    [] cp = 129799 -> Some(blockSextant(size, <<4>>))  \* U+1FB07
    [] cp = 129800 -> Some(blockSextant(size, <<1, 4>>))  \* U+1FB08
    [] cp = 129801 -> Some(blockSextant(size, <<2, 4>>))  \* U+1FB09
    [] cp = 129802 -> Some(blockSextant(size, <<1, 2, 4>>))  \* U+1FB0A
    [] cp = 129803 -> Some(blockSextant(size, <<3, 4>>))  \* U+1FB0B
    [] cp = 129804 -> Some(blockSextant(size, <<1, 3, 4>>))  \* U+1FB0C
    [] cp = 129805 -> Some(blockSextant(size, <<2, 3, 4>>))  \* U+1FB0D
    [] cp = 129806 -> Some(blockSextant(size, <<1, 2, 3, 4>>))  \* U+1FB0E
    [] cp = 129807 -> Some(blockSextant(size, <<5>>))  \* U+1FB0F
    [] cp = 129808 -> Some(blockSextant(size, <<1, 5>>))  \* U+1FB10
    [] cp = 129809 -> Some(blockSextant(size, <<2, 5>>))  \* U+1FB11
    [] cp = 129810 -> Some(blockSextant(size, <<1, 2, 5>>))  \* U+1FB12
    [] cp = 129811 -> Some(blockSextant(size, <<3, 5>>))  \* U+1FB13
    [] cp = 129812 -> Some(blockSextant(size, <<2, 3, 5>>))  \* U+1FB14
    [] cp = 129813 -> Some(blockSextant(size, <<1, 2, 3, 5>>))  \* U+1FB15
    [] cp = 129814 -> Some(blockSextant(size, <<4, 5>>))  \* U+1FB16
    [] cp = 129815 -> Some(blockSextant(size, <<1, 4, 5>>))  \* U+1FB17
    [] cp = 129816 -> Some(blockSextant(size, <<2, 4, 5>>))  \* U+1FB18
    [] cp = 129817 -> Some(blockSextant(size, <<1, 2, 4, 5>>))  \* U+1FB19
    [] cp = 129818 -> Some(blockSextant(size, <<3, 4, 5>>))  \* U+1FB1A
    [] cp = 129819 -> Some(blockSextant(size, <<1, 3, 4, 5>>))  \* U+1FB1B
    [] cp = 129820 -> Some(blockSextant(size, <<2, 3, 4, 5>>))  \* U+1FB1C
    [] cp = 129821 -> Some(blockSextant(size, <<1, 2, 3, 4, 5>>))  \* U+1FB1D
    [] cp = 129822 -> Some(blockSextant(size, <<6>>))  \* U+1FB1E
    [] cp = 129823 -> Some(blockSextant(size, <<1, 6>>))  \* U+1FB1F
    [] cp = 129824 -> Some(blockSextant(size, <<2, 6>>))  \* U+1FB20
    [] cp = 129825 -> Some(blockSextant(size, <<1, 2, 6>>))  \* U+1FB21
    [] cp = 129826 -> Some(blockSextant(size, <<3, 6>>))  \* U+1FB22
    [] cp = 129827 -> Some(blockSextant(size, <<1, 3, 6>>))  \* U+1FB23
    [] cp = 129828 -> Some(blockSextant(size, <<2, 3, 6>>))  \* U+1FB24
    [] cp = 129829 -> Some(blockSextant(size, <<1, 2, 3, 6>>))  \* U+1FB25
    [] cp = 129830 -> Some(blockSextant(size, <<4, 6>>))  \* U+1FB26
    [] cp = 129831 -> Some(blockSextant(size, <<1, 4, 6>>))  \* U+1FB27
    [] cp = 129832 -> Some(blockSextant(size, <<1, 2, 4, 6>>))  \* U+1FB28
    [] cp = 129833 -> Some(blockSextant(size, <<3, 4, 6>>))  \* U+1FB29
    [] cp = 129834 -> Some(blockSextant(size, <<1, 3, 4, 6>>))  \* U+1FB2A
    [] cp = 129835 -> Some(blockSextant(size, <<2, 3, 4, 6>>))  \* U+1FB2B
    [] cp = 129836 -> Some(blockSextant(size, <<1, 2, 3, 4, 6>>))  \* U+1FB2C
    [] cp = 129837 -> Some(blockSextant(size, <<5, 6>>))  \* U+1FB2D
    [] cp = 129838 -> Some(blockSextant(size, <<1, 5, 6>>))  \* U+1FB2E
    [] cp = 129839 -> Some(blockSextant(size, <<2, 5, 6>>))  \* U+1FB2F
    [] cp = 129840 -> Some(blockSextant(size, <<1, 2, 5, 6>>))  \* U+1FB30
    [] cp = 129841 -> Some(blockSextant(size, <<3, 5, 6>>))  \* U+1FB31
    [] cp = 129842 -> Some(blockSextant(size, <<1, 3, 5, 6>>))  \* U+1FB32
    [] cp = 129843 -> Some(blockSextant(size, <<2, 3, 5, 6>>))  \* U+1FB33
    [] cp = 129844 -> Some(blockSextant(size, <<1, 2, 3, 5, 6>>))  \* U+1FB34
    [] cp = 129845 -> Some(blockSextant(size, <<4, 5, 6>>))  \* U+1FB35
    [] cp = 129846 -> Some(blockSextant(size, <<1, 4, 5, 6>>))  \* U+1FB36
    [] cp = 129847 -> Some(blockSextant(size, <<2, 4, 5, 6>>))  \* U+1FB37
    [] cp = 129848 -> Some(blockSextant(size, <<1, 2, 4, 5, 6>>))  \* U+1FB38
    [] cp = 129849 -> Some(blockSextant(size, <<3, 4, 5, 6>>))  \* U+1FB39
    [] cp = 129850 -> Some(blockSextant(size, <<1, 3, 4, 5, 6>>))  \* U+1FB3A
    [] cp = 129851 -> Some(blockSextant(size, <<2, 3, 4, 5, 6>>))  \* U+1FB3B
    [] cp = 129904 -> Some(PixmapOrBlock(blockElement(size), vert_nth(Th(1, 8), 2)))  \* U+1FB70
    [] cp = 129905 -> Some(PixmapOrBlock(blockElement(size), vert_nth(Th(1, 8), 3)))  \* U+1FB71
    [] cp = 129906 -> Some(PixmapOrBlock(blockElement(size), vert_nth(Th(1, 8), 4)))  \* U+1FB72
    [] cp = 129907 -> Some(PixmapOrBlock(blockElement(size), vert_nth(Th(1, 8), 5)))  \* U+1FB73
    [] cp = 129908 -> Some(PixmapOrBlock(blockElement(size), vert_nth(Th(1, 8), 6)))  \* U+1FB74
    [] cp = 129909 -> Some(PixmapOrBlock(blockElement(size), vert_nth(Th(1, 8), 7)))  \* U+1FB75
    [] cp = 129910 -> Some(PixmapOrBlock(blockElement(size), horiz_nth(Th(1, 8), 2)))  \* U+1FB76
    [] cp = 129911 -> Some(PixmapOrBlock(blockElement(size), horiz_nth(Th(1, 8), 3)))  \* U+1FB77
    [] cp = 129912 -> Some(PixmapOrBlock(blockElement(size), horiz_nth(Th(1, 8), 4)))  \* U+1FB78
    [] cp = 129913 -> Some(PixmapOrBlock(blockElement(size), horiz_nth(Th(1, 8), 5)))  \* U+1FB79
    [] cp = 129914 -> Some(PixmapOrBlock(blockElement(size), horiz_nth(Th(1, 8), 6)))  \* U+1FB7A
    [] cp = 129915 -> Some(PixmapOrBlock(blockElement(size), horiz_nth(Th(1, 8), 7)))  \* U+1FB7B
    [] cp = 129916 -> Some(PixmapOrMosaic(blockElement(size), <<left(Th(1, 8)), lower(Th(1, 8))>>))  \* U+1FB7C
    [] cp = 129917 -> Some(PixmapOrMosaic(blockElement(size), <<left(Th(1, 8)), upper(Th(1, 8))>>))  \* U+1FB7D
    [] cp = 129918 -> Some(PixmapOrMosaic(blockElement(size), <<right(Th(1, 8)), upper(Th(1, 8))>>))  \* U+1FB7E
    [] cp = 129919 -> Some(PixmapOrMosaic(blockElement(size), <<right(Th(1, 8)), lower(Th(1, 8))>>))  \* U+1FB7F
    [] cp = 129920 -> Some(PixmapOrMosaic(blockElement(size), <<upper(Th(1, 8)), lower(Th(1, 8))>>))  \* U+1FB80
    [] cp = 129921 -> Some(PixmapOrMosaic(blockElement(size), <<horiz_nth(Th(1, 8), 1), horiz_nth(Th(1, 8), 3), horiz_nth(Th(1, 8), 5), horiz_nth(Th(1, 8), 7)>>))  \* U+1FB81
    [] cp = 129922 -> Some(PixmapOrBlock(blockElement(size), upper(Th(1, 4))))  \* U+1FB82
    [] cp = 129923 -> Some(PixmapOrBlock(blockElement(size), upper(Th(3, 8))))  \* U+1FB83
    [] cp = 129924 -> Some(PixmapOrBlock(blockElement(size), upper(Th(5, 8))))  \* U+1FB84
    [] cp = 129925 -> Some(PixmapOrBlock(blockElement(size), upper(Th(3, 4))))  \* U+1FB85
    [] cp = 129926 -> Some(PixmapOrBlock(blockElement(size), upper(Th(7, 8))))  \* U+1FB86
    [] cp = 129927 -> Some(PixmapOrBlock(blockElement(size), right(Th(1, 4))))  \* U+1FB87
    [] cp = 129928 -> Some(PixmapOrBlock(blockElement(size), right(Th(3, 8))))  \* U+1FB88
    [] cp = 129929 -> Some(PixmapOrBlock(blockElement(size), right(Th(5, 8))))  \* U+1FB89
    [] cp = 129930 -> Some(PixmapOrBlock(blockElement(size), right(Th(3, 4))))  \* U+1FB8A
    [] cp = 129931 -> Some(PixmapOrBlock(blockElement(size), right(Th(7, 8))))  \* U+1FB8B
    [] OTHER -> NullOpt

\* --------------------------------------------------------- arc rasterizer
\* Conversion of an int to unsigned.  A negative int becomes 2^32 + v, which
\* is above every column of a buffer; such values are only sorted and used
\* as (out of range) indices, so they are kept as 2^30 + v, in the same order.
ToUnsigned(v) == IF v >= 0 THEN v ELSE 1073741824 + v

\* The points (x, y) the midpoint ellipse algorithm hands to draw4WaySymmetric.
\* The decision parameters d1 and d2 are kept multiplied by 4 (they are
\* multiples of 1/4 in the source); dx, dy, x and y are integral.
RECURSIVE EllipseRegion2(_, _, _, _, _, _, _, _)
EllipseRegion2(rx, ry, x, y, dx, dy, d2, acc) ==
    IF ~(y >= 0) THEN acc
    ELSE IF d2 > 0
         THEN LET dy2 == dy - 2 * rx * rx
              IN  EllipseRegion2(rx, ry, x, y - 1, dx, dy2, d2 + 4 * (rx * rx) - 4 * dy2,
                                 acc \cup {<<x, y>>})
         ELSE LET dx2 == dx + 2 * ry * ry
                  dy2 == dy - 2 * rx * rx
              IN  EllipseRegion2(rx, ry, x + 1, y - 1, dx2, dy2,
                                 d2 + 4 * dx2 - 4 * dy2 + 4 * (rx * rx), acc \cup {<<x, y>>})

RECURSIVE EllipseRegion1(_, _, _, _, _, _, _, _)
EllipseRegion1(rx, ry, x, y, dx, dy, d1, acc) ==
    IF dx < dy
    THEN IF d1 < 0
         THEN LET dx2 == dx + 2 * ry * ry
              IN  EllipseRegion1(rx, ry, x + 1, y, dx2, dy, d1 + 4 * dx2 + 4 * (ry * ry),
                                 acc \cup {<<x, y>>})
         ELSE LET dx2 == dx + 2 * ry * ry
                  dy2 == dy - 2 * rx * rx
              IN  EllipseRegion1(rx, ry, x + 1, y - 1, dx2, dy2,
                                 d1 + 4 * dx2 - 4 * dy2 + 4 * (ry * ry), acc \cup {<<x, y>>})
    ELSE LET d2 == (ry * ry) * ((2 * x + 1) * (2 * x + 1))
                   + 4 * ((rx * rx) * ((y - 1) * (y - 1)))
                   - 4 * (rx * rx * ry * ry)
         IN  EllipseRegion2(rx, ry, x, y, dx, dy, d2, acc)

EllipsePoints(rx, ry) ==
    EllipseRegion1(rx, ry, 0, ry, 0, 2 * rx * rx * ry,
                   4 * (ry * ry) - 4 * (rx * rx * ry) + (rx * rx), {})

\* the <<fx, fy>> putpixel computes for one ellipse point
putpixel(width, height, arc, p) ==
    LET xy == CASE arc = "BottomLeft"  -> <<width - p[1], height - p[2]>>
                [] arc = "TopLeft"     -> <<width - p[1], p[2]>>
                [] arc = "TopRight"    -> <<p[1], p[2]>>
                [] arc = "BottomRight" -> <<p[1], height - p[2]>>
    IN  <<Min(width - 1, xy[1]), Min(height - 1, xy[2])>>

\* drawArc (ellipse): the pixels <<fx, fy>> of one ellipse, each written to
\* _buffer[fy * _width + fx] and recorded by _rec.at(fy).push_back(fx)
drawArcEllipse(width, height, rx, ry, arc) ==
    IF arc = "NoArc" THEN {}
    ELSE { putpixel(width, height, arc, p) : p \in EllipsePoints(rx, ry) }

\* drawArc (thickness): [writes, oob, throws]
\*   writes  indices assigned 0xFF
\*   oob     an unchecked _buffer[...] write fell outside the buffer
\*   throws  a checked .at() access was out of range (std::out_of_range)
SetMin(S) == CHOOSE a \in S : \A b \in S : a <= b
SetMax(S) == CHOOSE a \in S : \A b \in S : a >= b

\* gaps[y] as the set of its unsigned columns: the recorded pixels of row y
\* and, for the rows the close-up loop visits, the corner column
drawArcGap(width, height, thickness, arc, pixels, y) ==
    { ToUnsigned(p[1]) : p \in { q \in pixels : q[2] = y } }
    \cup (IF y \in { Div(height, 2) - Div(thickness, 2) + i : i \in 0..(thickness - 1) }
          THEN { IF arc \in {"TopLeft", "BottomLeft"} THEN width ELSE 0 }
          ELSE {})

\* the buffer indices of a set of pixels <<fx, fy>>
PixelIndices(width, pixels) == { p[2] * width + p[1] : p \in pixels }

\* the fill loop over one non-empty gap: the pixels <<xi, y>> written
drawArcFillRowPixels(width, height, y, gap) ==
    { <<xi, y>> : xi \in SetMin(gap)..(Min(SetMax(gap), width * height) - 1) }

\* the fill loop writing nothing
drawArcFillRow_NoFill(width, height, y, gap) == {}

\* the fill loop over one non-empty gap: the written indices of row y
drawArcFillRow(width, height, y, gap) ==
    PixelIndices(width, drawArcFillRowPixels(width, height, y, gap))

\* the fill loop over one gap: image.at(y * width + xi) is out of range
drawArcFillThrows(width, height, y, gap) ==
    gap # {} /\ SetMax(gap) > SetMin(gap) /\ y * width + SetMax(gap) - 1 >= width * height

\* drawArc (thickness) once both ellipses are drawn, pixels being what they
\* wrote: the close-up and fill loops
drawArcFill(width, height, thickness, arc, pixels, pixelWrites) ==
    [ writes |-> pixelWrites
                 \cup UNION { drawArcFillRow(width, height, y,
                                             drawArcGap(width, height, thickness, arc, pixels, y)) :
                              y \in { r \in 0..(height - 1) :
                                        drawArcGap(width, height, thickness, arc, pixels, r) # {} } },
      oob    |-> \E i \in pixelWrites : i \notin 0..(width * height - 1),
      throws |-> (\E p \in pixels : p[2] \notin 0..(height - 1))
                 \/ (\E i \in 0..(thickness - 1) :
                        Div(height, 2) - Div(thickness, 2) + i \notin 0..(height - 1))
                 \/ (\E y \in 0..(height - 1) :
                        drawArcFillThrows(width, height, y,
                                          drawArcGap(width, height, thickness, arc, pixels, y))) ]

\* the pixels <<fx, fy>> drawArc (thickness) draws as two ellipses
drawArcPixels(width, height, thickness, arc) ==
    drawArcEllipse(width, height, Div(width, 2) - Div(thickness, 2),
                   Div(height, 2) - Div(thickness, 2), arc)
    \cup drawArcEllipse(width, height, Div(width, 2) + Div(thickness, 2) - 1,
                        Div(height, 2) + Div(thickness, 2) - 1, arc)

drawArcOf(width, height, thickness, arc, pixels) ==
    drawArcFill(width, height, thickness, arc, pixels, PixelIndices(width, pixels))

drawArc(width, height, thickness, arc) ==
    drawArcOf(width, height, thickness, arc, drawArcPixels(width, height, thickness, arc))

\* ------------------------------------------------------------- box glyphs
\* round(a / b) for a >= 0, b > 0 (half away from zero)
RoundDiv(a, b) == (2 * a + b) \div (2 * b)

\* dashed horizontal line with every dash one pixel longer
DashedHorizontalWrites_LongDash(width, height, dashCount, thickness) ==
    LET y0 == Div(height, 2) - Div(thickness, 2)
        w == thickness
        pInt == width \div (dashCount * 2)
        x0first == RoundDiv(width, 4 * dashCount)
        x0_(i) == x0first + RoundDiv(i * width, dashCount)
    IN  { y * width + x :
            y \in y0..(y0 + w - 1),
            x \in UNION { x0_(i)..(x0_(i) + pInt) : i \in 0..(dashCount - 1) } }

\* dashed horizontal line: the pixels <<x, y>> written
DashedHorizontalPixels(width, height, dashCount, thickness) ==
    LET y0 == Div(height, 2) - Div(thickness, 2)
        w == thickness
        pInt == width \div (dashCount * 2)                 \* static_cast<int>(p)
        x0first == RoundDiv(width, 4 * dashCount)           \* round(p / 2.0)
        x0_(i) == x0first + RoundDiv(i * width, dashCount)  \* round(x0) in iteration i
    IN  { <<x, y>> :
            y \in y0..(y0 + w - 1),
            x \in UNION { x0_(i)..(x0_(i) + pInt - 1) : i \in 0..(dashCount - 1) } }

\* dashed horizontal line: the written indices
DashedHorizontalWrites(width, height, dashCount, thickness) ==
    PixelIndices(width, DashedHorizontalPixels(width, height, dashCount, thickness))

\* dashed vertical line: the pixels <<x, y>> written
DashedVerticalPixels(width, height, dashCount, thickness) ==
    LET x0 == Div(width, 2) - Div(thickness, 2)
        w == thickness
        pInt == height \div (dashCount * 2)
        y0first == RoundDiv(height, 4 * dashCount)
        y0_(i) == y0first + RoundDiv(i * height, dashCount)
    IN  { <<x, y>> :
            y \in UNION { y0_(i)..(y0_(i) + pInt - 1) : i \in 0..(dashCount - 1) },
            x \in x0..(x0 + w - 1) }

DashedVerticalWrites(width, height, dashCount, thickness) ==
    PixelIndices(width, DashedVerticalPixels(width, height, dashCount, thickness))

DashStyles == {"Light2", "Light3", "Light4", "Heavy2", "Heavy3", "Heavy4"}

\* left & right: the pixels <<x, y>> of one edge lm spanning columns x0 .. x1 - 1
HorizontalEdgePixels(lm, x0, x1, offset, lightThickness, heavyThickness) ==
    LET bar(y0, n) == { <<x0 + xi, y0 + yi>> : yi \in 0..(n - 1), xi \in 0..(x1 - x0 - 1) }
    IN  CASE lm = "Light"  -> bar(offset - Div(lightThickness, 2), lightThickness)
          [] lm = "Double" -> bar(offset - Div(lightThickness, 2) - lightThickness, lightThickness)
                              \cup bar(offset + Div(lightThickness, 2), lightThickness)
          [] lm = "Heavy"  -> bar(offset - Div(heavyThickness, 2), heavyThickness)
          [] OTHER -> {}

\* left & right: the indices image[(y0 + yi) * width + x0 + xi] written
HorizontalEdgeWrites(lm, x0, x1, offset, width, lightThickness, heavyThickness) ==
    PixelIndices(width, HorizontalEdgePixels(lm, x0, x1, offset, lightThickness, heavyThickness))

\* up & down: the pixels <<x, y>> of one edge lm spanning rows y0 .. y1 - 1
VerticalEdgePixels(lm, y0, y1, offset, lightThickness) ==
    LET bar(x0, n) == { <<x0 + xi, y0 + yi>> : yi \in 0..(y1 - y0 - 1), xi \in 0..(n - 1) }
    IN  CASE lm = "Light"  -> bar(offset - Div(lightThickness, 2), lightThickness)
          [] lm = "Double" -> bar(offset - Div(lightThickness, 2) - lightThickness, lightThickness)
                              \cup bar(offset - Div(lightThickness, 2) + lightThickness, lightThickness)
          [] lm = "Heavy"  -> bar(offset - Div(lightThickness * 3, 2), lightThickness * 3)
          [] OTHER -> {}

\* up & down: the indices image[(y0 + yi) * width + x0 + xi] written
VerticalEdgeWrites(lm, y0, y1, offset, width, lightThickness) ==
    PixelIndices(width, VerticalEdgePixels(lm, y0, y1, offset, lightThickness))

\* <<width, height, y>> for which int(double(y) * (1.0 / (double(height) / double(width))))
\* is one less than the exact quotient (y * width) \div height, for width, height <= 40
DiagonalRoundsDown ==
    {
      <<6, 34, 17>>, <<12, 34, 17>>, <<14, 18, 9>>, <<14, 36, 18>>, <<21, 27, 9>>, <<21, 27,
      18>>, <<22, 18, 9>>, <<22, 36, 18>>, <<24, 34, 17>>, <<26, 10, 5>>, <<26, 20, 10>>, <<26,
      40, 20>>, <<28, 18, 9>>, <<28, 36, 9>>, <<28, 36, 18>>, <<28, 36, 27>>, <<30, 26, 13>>,
      <<33, 27, 9>>, <<33, 27, 18>>, <<36, 20, 15>>, <<36, 28, 21>>, <<36, 40, 30>>, <<39, 15,
      5>>, <<39, 15, 10>>, <<39, 30, 10>>, <<39, 30, 20>>
    }

\* int(double(y) * aInv)
DiagonalColumn(y, width, height) ==
    ((y * width) \div height) - (IF <<width, height, y>> \in DiagonalRoundsDown THEN 1 ELSE 0)

\* the pixels <<x, y>> of the diagonals, x clamped into the row
DiagonalPixels(diagonal, width, height, lineThickness) ==
    LET run(y, x) == { <<Max(0, Min(x + xi, width - 1)), y>> :
                         xi \in Div(-lineThickness, 2)..(Div(lineThickness, 2) - 1) }
        forward == UNION { run(y, DiagonalColumn(y, width, height)) : y \in 0..(height - 1) }
        backward == UNION { run(y, DiagonalColumn(height - y - 1, width, height)) : y \in 0..(height - 1) }
    IN  (IF diagonal \in {"Forward", "Crossing"} THEN forward ELSE {})
        \cup (IF diagonal \in {"Backward", "Crossing"} THEN backward ELSE {})

DiagonalWrites(diagonal, width, height, lineThickness) ==
    PixelIndices(width, DiagonalPixels(diagonal, width, height, lineThickness))

\* Outcome of buildBoxElements:
\*   status  "image" (a buffer is returned), "nullopt", "assert" (the dash
\*           branch of the per-edge switch: assert(false), then nullopt) or
\*           "throw" (std::out_of_range from a checked access)
\*   oob     an unchecked write fell outside the buffer
BoxResult(status, image, oob) == [status |-> status, image |-> image, oob |-> oob]

\* the image with the indices w written, flagged when one is outside of it
BoxWritten(image, w) == BoxResult("image", WriteAll(image, w), \E i \in w : i \notin DOMAIN image)

\* the image after the edges and diagonals (solid) and the arc are drawn
BoxSolid(image, solid, arc) ==
    IF arc.throws
    THEN BoxResult("throw", image, (\E i \in solid : i \notin DOMAIN image) \/ arc.oob)
    ELSE BoxResult("image", WriteAll(image, solid \cup arc.writes),
                   (\E i \in solid : i \notin DOMAIN image) \/ arc.oob)

buildBoxElementsOf(box, size, lineThickness) ==
    LET height == size.height
        width == size.width
        horizontalOffset == Div(height, 2)
        verticalOffset == Div(width, 2)
        lightThickness == lineThickness
        heavyThickness == lineThickness * 2
        image == Buffer(width * height)
        dashedH == get_dashed_horizontal(box)
        dashedV == get_dashed_vertical(box)
        dashThickness(d) == IF Value(d)[2] = "Heavy" THEN heavyThickness ELSE lightThickness
        leftRight == HorizontalEdgeWrites(box.left_, 0, Div(width, 2), horizontalOffset,
                                          width, lightThickness, heavyThickness)
                     \cup HorizontalEdgeWrites(box.right_, Div(width, 2), width, horizontalOffset,
                                               width, lightThickness, heavyThickness)
        upDown == VerticalEdgeWrites(box.down_, 0, Div(height, 2), verticalOffset, width, lightThickness)
                  \cup VerticalEdgeWrites(box.up_, Div(height, 2), height, verticalOffset, width,
                                          lightThickness)
        diagonal == IF box.diagonal_ # "NoDiagonal"
                    THEN DiagonalWrites(box.diagonal_, width, height, lineThickness)
                    ELSE {}
    IN  IF HasValue(dashedH)
        THEN BoxWritten(image, DashedHorizontalWrites(width, height, Value(dashedH)[1],
                                                      dashThickness(dashedH)))
        ELSE IF HasValue(dashedV)
        THEN BoxWritten(image, DashedVerticalWrites(width, height, Value(dashedV)[1],
                                                    dashThickness(dashedV)))
        ELSE IF box.left_ \in DashStyles \/ box.right_ \in DashStyles
                \/ box.down_ \in DashStyles \/ box.up_ \in DashStyles
        THEN BoxResult("assert", image, FALSE)
        ELSE BoxSolid(image, leftRight \cup upDown \cup diagonal,
                      IF box.arc_ # "NoArc"
                      THEN drawArc(width, height, lightThickness, box.arc_)
                      ELSE [writes |-> {}, oob |-> FALSE, throws |-> FALSE])

\* optional<atlas::Buffer> buildBoxElements(_codepoint, _size, _lineThickness)
buildBoxElements(codepoint, size, lineThickness) ==
    IF ~(codepoint >= BoxBase /\ codepoint <= BoxLast)
    THEN BoxResult("nullopt", << >>, FALSE)
    ELSE buildBoxElementsOf(BoxAt(codepoint - BoxBase), size, lineThickness)

\* ------------------------------------------------------------ downsampling
\* downsample(bitmap, 1, size, newSize): every factor x factor block of the
\* source is averaged into one target pixel
downsample(bitmap, size, newSize) ==
    LET factor == size.width \div newSize.width
        block(x, y) == { (factor * y + dy) * size.width + (factor * x + dx) :
                           dy \in 0..(factor - 1), dx \in 0..(factor - 1) }
        set(x, y) == Cardinality({ i \in block(x, y) : bitmap[i] = 255 })
    IN  [ i \in 0..(newSize.width * newSize.height - 1) |->
            (255 * set(i % newSize.width, i \div newSize.width)) \div (factor * factor) ]

\* ------------------------------------------------------- SSA_FACTOR, atoi
Digits == <<"0", "1", "2", "3", "4", "5", "6", "7", "8", "9">>
IsDigit(c) == \E d \in 1..10 : Digits[d] = c
DigitValue(c) == (CHOOSE d \in 1..10 : Digits[d] = c) - 1

RECURSIVE AtoiDigits(_, _)
AtoiDigits(s, acc) ==
    IF s = << >> \/ ~IsDigit(Head(s)) THEN acc
    ELSE AtoiDigits(Tail(s), 10 * acc + DigitValue(Head(s)))

\* atoi on a string given as its sequence of characters
RECURSIVE atoi(_)
atoi(s) ==
    IF s = << >> THEN 0
    ELSE IF Head(s) = " " THEN atoi(Tail(s))
    ELSE IF Head(s) = "-" THEN -AtoiDigits(Tail(s), 0)
    ELSE IF Head(s) = "+" THEN AtoiDigits(Tail(s), 0)
    ELSE AtoiDigits(s, 0)

\* the factor with an out-of-range value clamped into 1..8
supersamplingFactor_Clamped(env) ==
    IF ~HasValue(env) THEN 2
    ELSE LET val == atoi(Value(env))
         IN  IF val < 1 THEN 1 ELSE IF val > 8 THEN 8 ELSE val

\* the lambda computing supersamplingFactor; env is getenv("SSA_FACTOR")
supersamplingFactor(env) ==
    IF ~HasValue(env) THEN 2
    ELSE LET val == atoi(Value(env))
         IN  IF ~(val >= 1 /\ val <= 8) THEN 1 ELSE val

\* ------------------------------------------------------------ the renderer
\* codepoints resolved through the cache
Codepoints == {9474, 9581, 9608, 9618, 65}   \* U+2502, U+256D, U+2588, U+2592, 'A'
\* block elements resolved at every positive cell size
BlockCodepoints == {9608, 9600}               \* U+2588, U+2580
\* codepoints the renderable predicate is queried with: the supported ranges
\* and their neighbourhood
ProbeCodepoints ==
    (9115..9132) \cup (9466..9640) \cup (129786..129857) \cup (129898..129937) \cup {0, 65, 1114111}

AllCodepoints == Codepoints \cup BlockCodepoints

\* values of the environment variable SSA_FACTOR (NullOpt: not set)
EnvValues == { NullOpt, Some(<<"1">>), Some(<<"3">>), Some(<<"9", "x">>) }

\* cell width, cell height, underline thickness with thickness < half the cell
Geometries ==
    { g \in (1..MaxCell) \X (1..MaxCell) \X (1..MaxThickness) :
        2 * g[3] < g[1] /\ 2 * g[3] < g[2] }
\* cell sizes for block elements: every positive size
BlockGeometries == (1..MaxBlockCell) \X (1..MaxBlockCell) \X {1}

VARIABLES
    cellSize,        \* gridMetrics_.cellSize
    lineThickness,   \* gridMetrics_.underline.thickness
    ssaFactorEnv,    \* the process environment's SSA_FACTOR
    textureAtlas_,   \* codepoint -> optional DataRef
    inserts,         \* history: inserts per codepoint into the current atlas (capped at 2)
    synthesized,     \* history: codepoint -> optional bitmap last built under the current metrics
    last             \* the last operation and what it returned

\* crispy::indexed under test, and the operands of the block algebra
VARIABLES
    indexedLoop,     \* the range-for loop of indexed_test.cpp: range, iterator, counter k, pairs seen
    operands         \* history: the RatioBlocks a, b last handed to operator*

VARIABLES
    textureScheduler, \* the RenderTexture commands textureScheduler() received from render()
    returned,         \* history: the value the last render() call returned, if it returned
    scheduler_,       \* atlas::Renderer::scheduler_: the four command vectors
    atlasMap_,        \* atlas::Renderer::atlasMap_: the atlas ids that have a texture
    commandCount,     \* history: the number of commands handed to schedule() so far
    executions,       \* history: per execute(), the commands processed in processing order
    line,             \* terminal::Line: its inflated buffer and its wrappable flag
    reflowCall        \* history: the last reflow() call, its argument and its result

vars == <<cellSize, lineThickness, ssaFactorEnv, textureAtlas_, inserts, synthesized, last,
          indexedLoop, operands, textureScheduler, returned, scheduler_, atlasMap_, commandCount,
          executions, line, reflowCall>>
\* the state render() leaves alone besides the renderer's own
collaborators == <<indexedLoop, operands, scheduler_, atlasMap_, commandCount, executions, line, reflowCall>>
\* the state the other operations of the renderer leave alone
others == <<collaborators, textureScheduler, returned>>
\* no block multiplied yet
NoOperands == << >>
\* no loop running
NoLoop == [a |-> << >>, passed |-> "none", i |-> [index |-> 0, iter |-> 0], k |-> 0, pairs |-> << >>]
\* ExecutionScheduler after construction: four empty vectors
EmptyScheduler == [createAtlases |-> << >>, uploadTextures |-> << >>, renderTextures |-> << >>,
                   destroyAtlases |-> << >>]
\* a line without columns
EmptyLine == [buffer |-> << >>, wrappable |-> TRUE]
\* reflow() not called yet
NoReflow == [called |-> FALSE, n |-> 0, size |-> 0, wrappable |-> FALSE, removedColumns |-> << >>]
\* no render() call yet, no command scheduled
SchedulersIdle ==
    /\ textureScheduler = << >>
    /\ returned = NullOpt
    /\ scheduler_ = EmptyScheduler
    /\ atlasMap_ = {}
    /\ commandCount = 0
    /\ executions = << >>
\* no line filled
LineIdle == line = EmptyLine /\ reflowCall = NoReflow
\* no render() call yet, no command scheduled, no line filled
CollaboratorsIdle == SchedulersIdle /\ LineIdle
OthersIdle == indexedLoop = NoLoop /\ operands = NoOperands /\ CollaboratorsIdle

EmptyAtlas == [cp \in AllCodepoints |-> NullOpt]

\* TextureAtlas::get
AtlasGet(atlas, cp) == IF cp \in DOMAIN atlas THEN atlas[cp] ELSE NullOpt
\* TextureAtlas::insert(codepoint, size, targetSize, buffer): the DataRef
DataRef(size, buffer) == [size |-> size, buffer |-> buffer]
AtlasInsert(atlas, cp, size, buffer) ==
    [c \in DOMAIN atlas \cup {cp} |-> IF c = cp THEN Some(DataRef(size, buffer)) ELSE atlas[c]]

\* the descriptors boxDrawingDefinitions[i] can yield: the entry for an index
\* inside the array; outside of it the read is out of bounds and the two
\* fields examined may hold anything
ArrayRead(i) ==
    IF i \in 0..127 THEN { BoxAt(i) }
    ELSE { BoxArc(BoxDiagonal(Box0, d), a) : d \in Diagonals, a \in Arcs }

\* the values containsNonCanonicalLines(codepoint) can return
containsNonCanonicalLines(codepoint) ==
    IF codepoint < BoxBase \/ codepoint > BoxLast
    THEN { FALSE }
    ELSE { box.diagonal_ # "NoDiagonal" \/ box.arc_ # "NoArc" : box \in ArrayRead(codepoint) }

\* renderable with the box drawing range ending one early
renderable_OffByOne(codepoint) ==
    LET ascending(a, b) == a <= codepoint /\ codepoint <= b
    IN  \/ ascending(9121, 9126)
        \/ ascending(9472, 9598)
        \/ ascending(9600, 9616)
        \/ ascending(9620, 9631)
        \/ ascending(129792, 129851)
        \/ ascending(129904, 129931)

\* renderable(codepoint)
renderable(codepoint) ==
    LET ascending(a, b) == a <= codepoint /\ codepoint <= b
    IN  \/ ascending(9121, 9126)       \* 0x23A1, 0x23A6
        \/ ascending(9472, 9599)       \* 0x2500, 0x257F
        \/ ascending(9600, 9616)       \* 0x2580, 0x2590
        \/ ascending(9620, 9631)       \* 0x2594, 0x259F
        \/ ascending(129792, 129851)   \* 0x1FB00, 0x1FB3B
        \/ ascending(129904, 129931)   \* 0x1FB70, 0x1FB8B

\* getDataRef(codepoint) with antialiasing the value containsNonCanonicalLines
\* returned: the atlas afterwards, the returned optional<DataRef> and the path
\*   "hit"           found in the atlas
\*   "direct"        built by buildElements
\*   "supersampled"  built by buildBoxElements at the supersampling size, downsampled
\*   "canonical"     built by buildBoxElements at the cell size
\*   "none"          nullopt
\*   "assert"        assert(false) in buildBoxElements, then nullopt
\*   "throw"         an exception left buildBoxElements
Outcome(atlas, result, path, oob) == [atlas |-> atlas, result |-> result, path |-> path, oob |-> oob]

\* getDataRef after the atlas lookup missed
\* textureAtlas_->insert(codepoint, size, size, buffer) and the DataRef returned
getDataRefInsert(atlas, codepoint, size, buffer, path, oob) ==
    Outcome(AtlasInsert(atlas, codepoint, size, buffer),
            AtlasInsert(atlas, codepoint, size, buffer)[codepoint], path, oob)

\* getDataRef when buildBoxElements returned no image
getDataRefNoImage(atlas, tmp) ==
    Outcome(atlas, NullOpt, IF tmp.status = "nullopt" THEN "none" ELSE tmp.status, tmp.oob)

\* the antialiasing branch, tmp the outcome of buildBoxElements at the
\* supersampling size
getDataRefSupersampled(atlas, codepoint, size, supersamplingSize, tmp) ==
    IF tmp.status # "image"
    THEN getDataRefNoImage(atlas, tmp)
    ELSE getDataRefInsert(atlas, codepoint, size,
                          downsample(tmp.image, supersamplingSize, size), "supersampled", tmp.oob)

\* the branch without antialiasing, tmp the outcome of buildBoxElements at
\* the cell size
getDataRefCanonical(atlas, codepoint, size, tmp) ==
    IF tmp.status # "image"
    THEN getDataRefNoImage(atlas, tmp)
    ELSE getDataRefInsert(atlas, codepoint, size, tmp.image, "canonical", tmp.oob)

\* the branch taken when buildElements returned image
getDataRefDirect(atlas, codepoint, size, image, antialiasing, thickness, env) ==
    IF HasValue(image)
    THEN getDataRefInsert(atlas, codepoint, size, Value(image), "direct", FALSE)
    ELSE IF antialiasing
    THEN LET factor == supersamplingFactor(env)
             supersamplingSize == ImageSize(size.width * factor, size.height * factor)
             supersamplingLineThickness == thickness * 2
         IN  getDataRefSupersampled(atlas, codepoint, size, supersamplingSize,
                 buildBoxElements(codepoint, supersamplingSize, supersamplingLineThickness))
    ELSE getDataRefCanonical(atlas, codepoint, size, buildBoxElements(codepoint, size, thickness))

getDataRefMiss(atlas, codepoint, antialiasing, size, thickness, env) ==
    getDataRefDirect(atlas, codepoint, size, buildElements(codepoint, size), antialiasing,
                     thickness, env)

\* getDataRef without the atlas lookup
getDataRef_NoLookup(atlas, codepoint, antialiasing, size, thickness, env) ==
    getDataRefMiss(atlas, codepoint, antialiasing, size, thickness, env)

getDataRef(atlas, codepoint, antialiasing, size, thickness, env) ==
    IF HasValue(AtlasGet(atlas, codepoint))
    THEN Outcome(atlas, AtlasGet(atlas, codepoint), "hit", FALSE)
    ELSE getDataRefMiss(atlas, codepoint, antialiasing, size, thickness, env)

\* clearCache leaving the atlas as it is
clearCache_Keep(atlas) == atlas

\* clearCache(): a fresh, empty atlas
clearCache(atlas) == EmptyAtlas

\* op, codepoint, path, result: the operation and what it did
\* antialiasing: the value containsNonCanonicalLines returned to getDataRef
\* wasCached:    the atlas held the codepoint when getDataRef was entered
\* previous:     the bitmap last built for the codepoint under these metrics
\* dropped:      the codepoints a cache clear removed; for getDataRef, whether
\*               the grid metrics change right before it removed this codepoint
\* oob:          an unchecked write fell outside its buffer
Last(op, cp, path, antialiasing, result, wasCached, previous, dropped, oob) ==
    [op |-> op, codepoint |-> cp, path |-> path, antialiasing |-> antialiasing, result |-> result,
     wasCached |-> wasCached, previous |-> previous, dropped |-> dropped, oob |-> oob]

Cached(atlas) == { cp \in AllCodepoints : HasValue(atlas[cp]) }
Built(path) == path \in {"direct", "canonical", "supersampled"}

GetDataRef(codepoint) ==
    \E antialiasing \in containsNonCanonicalLines(codepoint) :
        \E out \in { getDataRef(textureAtlas_, codepoint, antialiasing, cellSize, lineThickness,
                                ssaFactorEnv) } :
            /\ textureAtlas_' = out.atlas
            /\ inserts' = IF Built(out.path)
                          THEN [inserts EXCEPT ![codepoint] = Min(2, @ + 1)]
                          ELSE inserts
            /\ synthesized' = IF Built(out.path)
                              THEN [synthesized EXCEPT ![codepoint] = Some(Value(out.result).buffer)]
                              ELSE synthesized
            /\ last' = Last("getDataRef", codepoint, out.path, antialiasing, out.result,
                            HasValue(textureAtlas_[codepoint]), synthesized[codepoint],
                            IF last.op = "setGridMetrics" /\ codepoint \in last.dropped
                            THEN {codepoint} ELSE {},
                            out.oob)
            /\ UNCHANGED <<others, cellSize, lineThickness, ssaFactorEnv>>

Resolve == \E codepoint \in Codepoints : GetDataRef(codepoint)

ClearCache ==
    /\ textureAtlas_' = clearCache(textureAtlas_)
    /\ inserts' = [cp \in AllCodepoints |-> 0]
    /\ last' = Last("clearCache", 0, "none", FALSE, NullOpt, FALSE, NullOpt, Cached(textureAtlas_), FALSE)
    /\ UNCHANGED <<others, cellSize, lineThickness, ssaFactorEnv, synthesized>>

\* setRenderTarget(): Renderable::setRenderTarget, then clearCache()
SetRenderTarget ==
    /\ textureAtlas_' = clearCache(textureAtlas_)
    /\ inserts' = [cp \in AllCodepoints |-> 0]
    /\ last' = Last("setRenderTarget", 0, "none", FALSE, NullOpt, FALSE, NullOpt, Cached(textureAtlas_), FALSE)
    /\ UNCHANGED <<others, cellSize, lineThickness, ssaFactorEnv, synthesized>>

\* the owner of the grid metrics changes them (new font metrics) and clears
\* the caches of its renderers
SetGridMetrics ==
    \E g \in Geometries :
        /\ <<g[1], g[2], g[3]>> # <<cellSize.width, cellSize.height, lineThickness>>
        /\ cellSize' = ImageSize(g[1], g[2])
        /\ lineThickness' = g[3]
        /\ textureAtlas_' = clearCache(textureAtlas_)
        /\ inserts' = [cp \in AllCodepoints |-> 0]
        /\ synthesized' = [cp \in AllCodepoints |-> NullOpt]
        /\ last' = Last("setGridMetrics", 0, "none", FALSE, NullOpt, FALSE, NullOpt, Cached(textureAtlas_), FALSE)
        /\ UNCHANGED <<others, ssaFactorEnv>>

NoLast == Last("init", 0, "none", FALSE, NullOpt, FALSE, NullOpt, {}, FALSE)

InitWith(geometries) ==
    /\ \E g \in geometries :
        /\ cellSize = ImageSize(g[1], g[2])
        /\ lineThickness = g[3]
    /\ ssaFactorEnv \in EnvValues
    /\ textureAtlas_ = EmptyAtlas
    /\ inserts = [cp \in AllCodepoints |-> 0]
    /\ synthesized = [cp \in AllCodepoints |-> NullOpt]
    /\ last = NoLast
    /\ OthersIdle

Init == InitWith(Geometries)

Next ==
    \/ Resolve
    \/ ClearCache
    \/ SetRenderTarget
    \/ SetGridMetrics

Spec == Init /\ [][Next]_vars

\* block elements at every positive cell size
BlockInit == InitWith(BlockGeometries) /\ ssaFactorEnv = NullOpt

ResolveBlock == \E codepoint \in BlockCodepoints : GetDataRef(codepoint)

BlockNext ==
    \/ ResolveBlock
    \/ ClearCache

BlockSpec == BlockInit /\ [][BlockNext]_vars

\* the renderable predicate, queried for every probe codepoint
Renderable(codepoint) ==
    /\ last' = Last("renderable", codepoint, "none", FALSE, Some(renderable(codepoint)), FALSE,
                   NullOpt, {}, FALSE)
    /\ UNCHANGED <<others, cellSize, lineThickness, ssaFactorEnv, textureAtlas_, inserts, synthesized>>

QueryNext == \E codepoint \in ProbeCodepoints : Renderable(codepoint)

QuerySpec == Init /\ [][QueryNext]_vars

\* ------------------------------------------------------------- properties
ResultBuffer == Value(last.result).buffer

\* the five codepoint ranges the specification names
InDocumentedRanges(cp) ==
    \/ cp \in 9472..9599          \* U+2500-U+257F
    \/ cp \in 9600..9631          \* U+2580-U+259F
    \/ cp \in 129792..129851      \* U+1FB00-U+1FB3B
    \/ cp \in 129904..129931      \* U+1FB70-U+1FB8B
    \/ cp \in 9121..9126          \* U+23A1-U+23A6

\* C1: between two cache clears a codepoint is inserted into the atlas at
\* most once, and a getDataRef for a codepoint the atlas already holds returns
\* that entry, builds nothing and leaves the atlas unchanged.
C1_AtMostOnce ==
    [][ /\ \A cp \in AllCodepoints : inserts'[cp] <= 1
        /\ (last'.op = "getDataRef" /\ HasValue(textureAtlas_[last'.codepoint]))
             => /\ textureAtlas_' = textureAtlas_
                /\ last'.result = textureAtlas_[last'.codepoint]
                /\ last'.path = "hit"
                /\ inserts' = inserts
                /\ synthesized' = synthesized ]_vars

C1_Witness ==
    /\ last.op = "getDataRef"
    /\ last.wasCached
    /\ last.path = "hit"
    /\ inserts[last.codepoint] = 1
    /\ last.result = textureAtlas_[last.codepoint]

\* C2: every entry of the atlas, and so every DataRef getDataRef returns, was
\* built for the current cell size: it is registered with the current cell
\* size and its bitmap has width * height bytes of that size.
C2_CurrentCellSize ==
    /\ \A cp \in Cached(textureAtlas_) :
          /\ Value(textureAtlas_[cp]).size = cellSize
          /\ BufferSize(Value(textureAtlas_[cp]).buffer) = cellSize.width * cellSize.height
    /\ (last.op = "getDataRef" /\ HasValue(last.result))
          => /\ Value(last.result).size = cellSize
             /\ BufferSize(ResultBuffer) = cellSize.width * cellSize.height

C2_Witness ==
    /\ last.op = "getDataRef"
    /\ last.dropped = {last.codepoint}
    /\ HasValue(last.result)
    /\ Value(last.result).size = cellSize

\* C3 as stated: renderable is true exactly on the five documented ranges.
C3_DocumentedRanges ==
    last.op = "renderable" => (Value(last.result) <=> InDocumentedRanges(last.codepoint))

\* C3 amended: renderable is true exactly on U+23A1-U+23A6, U+2500-U+257F,
\* U+2580-U+2590, U+2594-U+259F, U+1FB00-U+1FB3B and U+1FB70-U+1FB8B; the
\* shade characters U+2591-U+2593 are not renderable.
C3_RenderableRanges ==
    last.op = "renderable"
        => (Value(last.result)
              <=> (InDocumentedRanges(last.codepoint) /\ last.codepoint \notin 9617..9619))

C3_Witness ==
    /\ last.op = "renderable"
    /\ last.codepoint = 9617
    /\ last.result = Some(FALSE)

\* C4: a getDataRef for a codepoint outside the documented ranges, or one for
\* which nothing could be built, returns nullopt without an exception or an
\* assertion failure and leaves the atlas as it was.
C4_NothingOnFailure ==
    [][ (/\ last'.op = "getDataRef"
         /\ \/ ~InDocumentedRanges(last'.codepoint)
            \/ ~(Built(last'.path) \/ last'.path = "hit"))
          => /\ last'.result = NullOpt
             /\ last'.path = "none"
             /\ textureAtlas_' = textureAtlas_
             /\ inserts' = inserts ]_vars

C4_Witness ==
    /\ last.op = "getDataRef"
    /\ last.codepoint = 65
    /\ last.result = NullOpt
    /\ Cached(textureAtlas_) # {}

\* the descriptor of the table for a box drawing codepoint has a diagonal or an arc
TableNonCanonical(cp) ==
    BoxAt(cp - BoxBase).diagonal_ # "NoDiagonal" \/ BoxAt(cp - BoxBase).arc_ # "NoArc"

\* C5: for a box drawing codepoint getDataRef builds, containsNonCanonicalLines
\* is true exactly when the codepoint's own descriptor has a diagonal or an
\* arc (U+256D-U+2573), and the supersampled path is taken exactly then.
C5_NonCanonicalExactly ==
    (last.op = "getDataRef" /\ last.path \in {"canonical", "supersampled"})
        => /\ last.antialiasing <=> TableNonCanonical(last.codepoint)
           /\ last.antialiasing <=> last.codepoint \in 9581..9587
           /\ last.path = "supersampled" <=> last.antialiasing

\* C6: every bitmap getDataRef builds and inserts, on the direct, the
\* canonical and the supersampled path, has cell width * cell height bytes
\* and is registered with the cell size.
C6_Dimensions ==
    (last.op = "getDataRef" /\ Built(last.path))
        => /\ HasValue(last.result)
           /\ BufferSize(ResultBuffer) = cellSize.width * cellSize.height
           /\ DOMAIN ResultBuffer = 0..(cellSize.width * cellSize.height - 1)
           /\ Value(last.result).size = cellSize
           /\ textureAtlas_[last.codepoint] = last.result

C6_Witness ==
    /\ last.op = "getDataRef"
    /\ last.path = "supersampled"
    /\ last.codepoint = 9581
    /\ HasValue(last.result)
    /\ cellSize.width # cellSize.height
    /\ \E cp \in Cached(textureAtlas_) : cp = 9608
    /\ \E cp \in Cached(textureAtlas_) : cp = 9474

LightVerticalStripe(size, t) ==
    LET x0 == Div(size.width, 2) - Div(t, 2)
    IN  [ i \in 0..(size.width * size.height - 1) |->
            IF (i % size.width) \in x0..(x0 + t - 1) THEN 255 ELSE 0 ]

\* C8: the bitmap getDataRef returns for U+2502 is exactly the stripe of
\* lineThickness columns starting at column width/2 - lineThickness/2.
C8_LightVertical ==
    (last.op = "getDataRef" /\ last.codepoint = 9474 /\ HasValue(last.result))
        => ResultBuffer = LightVerticalStripe(cellSize, lineThickness)

\* C9: every byte of the full block U+2588 is 0xFF, at every positive cell size.
C9_FullBlock ==
    (last.op = "getDataRef" /\ last.codepoint = 9608 /\ HasValue(last.result))
        => /\ BufferSize(ResultBuffer) = cellSize.width * cellSize.height
           /\ \A i \in DOMAIN ResultBuffer : ResultBuffer[i] = 255

C9_Witness ==
    /\ last.op = "getDataRef"
    /\ last.codepoint = 9608
    /\ last.path = "direct"
    /\ cellSize = ImageSize(1, 3)
    /\ \A i \in 0..2 : ResultBuffer[i] = 255

\* C10 as stated: rows [0, height/2) of U+2580 are 0xFF, rows [height/2, height) are 0x00.
C10_UpperHalfTopRows ==
    (last.op = "getDataRef" /\ last.codepoint = 9600 /\ HasValue(last.result))
        => \A i \in DOMAIN ResultBuffer :
              ResultBuffer[i] = (IF (i \div cellSize.width) < Div(cellSize.height, 2) THEN 255 ELSE 0)

\* C10 amended: in the buffer of U+2580 the rows [height/2, height) are 0xFF
\* and the rows [0, height/2) are 0x00 (row r is the bytes r*width .. r*width + width - 1).
C10_UpperHalfHighRows ==
    (last.op = "getDataRef" /\ last.codepoint = 9600 /\ HasValue(last.result))
        => /\ BufferSize(ResultBuffer) = cellSize.width * cellSize.height
           /\ \A i \in DOMAIN ResultBuffer :
                 ResultBuffer[i] = (IF (i \div cellSize.width) >= Div(cellSize.height, 2) THEN 255 ELSE 0)

C10_Witness ==
    /\ last.op = "getDataRef"
    /\ last.codepoint = 9600
    /\ last.path = "direct"
    /\ cellSize = ImageSize(2, 3)
    /\ ResultBuffer = (0 :> 0 @@ 1 :> 0 @@ 2 :> 255 @@ 3 :> 255 @@ 4 :> 255 @@ 5 :> 255)

\* ------------------------------------------------- rasterizers called directly
\* buildBoxElements(codepoint, gridMetrics_.cellSize, gridMetrics_.underline.thickness),
\* tmp its outcome; last.path is the outcome's status
BuildBoxElementsDone(codepoint, tmp) ==
    /\ last' = Last("buildBoxElements", codepoint, tmp.status, FALSE,
                    IF tmp.status = "image" THEN Some(DataRef(cellSize, tmp.image)) ELSE NullOpt,
                    FALSE, NullOpt, {}, tmp.oob)
    /\ UNCHANGED <<others, cellSize, lineThickness, ssaFactorEnv, textureAtlas_, inserts, synthesized>>

BuildBoxElements(codepoint) ==
    BuildBoxElementsDone(codepoint, buildBoxElements(codepoint, cellSize, lineThickness))

\* widest cell the dashed lines are drawn in
MaxDashWidth == 14
\* cells at least six pixels wide
DashGeometries ==
    { g \in (6..MaxDashWidth) \X (3..5) \X (1..2) : 2 * g[3] < g[2] }
\* U+2504, U+2505: light and heavy triple dash horizontal
DashCodepoints == {9476, 9477}

DashInit == InitWith(DashGeometries)
DashNext == \E codepoint \in DashCodepoints : BuildBoxElements(codepoint)
DashSpec == DashInit /\ [][DashNext]_vars

\* ---------------------------------------------------------- rows and runs
\* pixel (x, y) of the bitmap last returned is set
PixelSet(x, y) == ResultBuffer[y * cellSize.width + x] # 0
\* the columns of row y at which a maximal run of set (unset) pixels starts
RunStarts(y, set) ==
    { x \in 0..(cellSize.width - 1) :
        PixelSet(x, y) = set /\ (x = 0 \/ PixelSet(x - 1, y) # set) }
\* the width of the maximal run of row y that starts at column x
RunWidth(y, x) ==
    Cardinality({ e \in x..(cellSize.width - 1) : \A k \in x..e : PixelSet(k, y) = PixelSet(x, y) })
\* the horizontal midline row
MidRow == Div(cellSize.height, 2)

MaxArcCell == 10
MaxArcThickness == 4
\* thickness below half the cell dimension
ArcGeometries ==
    { g \in (3..MaxArcCell) \X (3..MaxArcCell) \X (1..MaxArcThickness) :
        2 * g[3] < g[1] /\ 2 * g[3] < g[2] }
\* U+256D, U+256E, U+256F, U+2570
ArcCodepoints == 9581..9584

ArcInit == InitWith(ArcGeometries) /\ ssaFactorEnv = NullOpt
ArcNext == \E codepoint \in ArcCodepoints : BuildBoxElements(codepoint)
ArcSpec == ArcInit /\ [][ArcNext]_vars

\* C12: buildBoxElements returns a bitmap for each rounded corner U+256D..U+2570,
\* and in every row of it the set pixels form at most one maximal run (no
\* unset pixel between the first and the last set pixel of a row).
C12_ArcRowsContiguous ==
    (last.op = "buildBoxElements" /\ last.codepoint \in ArcCodepoints)
        => /\ last.path = "image"
           /\ ~last.oob
           /\ \A y \in 0..(cellSize.height - 1) : Cardinality(RunStarts(y, TRUE)) <= 1

\* U+256D at 9x9 with thickness 4: a row whose run is wider than the two
\* ellipse pixels bounding it
C12_Witness ==
    /\ last.op = "buildBoxElements"
    /\ last.codepoint = 9581
    /\ last.path = "image"
    /\ cellSize = ImageSize(9, 9)
    /\ lineThickness = 4
    /\ \E y \in 0..(cellSize.height - 1) :
          \E x \in RunStarts(y, TRUE) : RunWidth(y, x) >= 3 /\ x + RunWidth(y, x) < cellSize.width

\* --------------------------------------------------- supersampling factor
\* longest SSA_FACTOR value
MaxEnvLen == 2
EnvChars == {"0", "1", "2", "8", "9", "-", " ", "x"}
RECURSIVE Strings(_)
Strings(n) ==
    IF n = 0 THEN { << >> }
    ELSE Strings(n - 1) \cup { Append(s, c) : s \in { t \in Strings(n - 1) : Len(t) = n - 1 }, c \in EnvChars }
\* SSA_FACTOR unset, or any string over EnvChars
FactorEnvValues == { NullOpt } \cup { Some(s) : s \in Strings(MaxEnvLen) }

\* the lambda of getDataRef evaluated under the current environment
SupersamplingFactor ==
    /\ last' = Last("supersamplingFactor", 0, "none", FALSE, Some(supersamplingFactor(ssaFactorEnv)),
                    FALSE, NullOpt, {}, FALSE)
    /\ UNCHANGED <<others, cellSize, lineThickness, ssaFactorEnv, textureAtlas_, inserts, synthesized>>

FactorInit ==
    /\ \E g \in Geometries :
        /\ cellSize = ImageSize(g[1], g[2])
        /\ lineThickness = g[3]
    /\ ssaFactorEnv \in FactorEnvValues
    /\ textureAtlas_ = EmptyAtlas
    /\ inserts = [cp \in AllCodepoints |-> 0]
    /\ synthesized = [cp \in AllCodepoints |-> NullOpt]
    /\ last = NoLast
    /\ OthersIdle
FactorNext == SupersamplingFactor
FactorSpec == FactorInit /\ [][FactorNext]_vars

\* a decimal numeral: digits, optionally after one minus sign
IsNumeral(s) ==
    /\ s # << >>
    /\ LET digits == IF Head(s) = "-" THEN Tail(s) ELSE s
       IN  digits # << >> /\ \A i \in 1..Len(digits) : IsDigit(digits[i])
RECURSIVE DigitsValue(_)
DigitsValue(s) == IF s = << >> THEN 0 ELSE 10 * DigitsValue(SubSeq(s, 1, Len(s) - 1)) + DigitValue(s[Len(s)])
NumeralValue(s) == IF Head(s) = "-" THEN -DigitsValue(Tail(s)) ELSE DigitsValue(s)

\* C13 as stated: the factor is 2 without an override, the override when it
\* is an integer in 1..8, and an integer override outside 1..8 clamped into [1, 8].
C13_FactorClamped ==
    last.op = "supersamplingFactor"
        => /\ ~HasValue(ssaFactorEnv) => Value(last.result) = 2
           /\ (HasValue(ssaFactorEnv) /\ IsNumeral(Value(ssaFactorEnv)))
                 => Value(last.result) = Max(1, Min(8, NumeralValue(Value(ssaFactorEnv))))

\* C13 amended: the factor is 2 without an override, the override when it is
\* an integer in 1..8, and 1 for an integer override outside 1..8.
C13_FactorOrOne ==
    last.op = "supersamplingFactor"
        => /\ Value(last.result) \in 1..8
           /\ ~HasValue(ssaFactorEnv) => Value(last.result) = 2
           /\ (HasValue(ssaFactorEnv) /\ IsNumeral(Value(ssaFactorEnv)))
                 => Value(last.result) = (IF NumeralValue(Value(ssaFactorEnv)) \in 1..8
                                          THEN NumeralValue(Value(ssaFactorEnv)) ELSE 1)

C13_Witness ==
    /\ last.op = "supersamplingFactor"
    /\ ssaFactorEnv = Some(<<"9">>)
    /\ last.result = Some(1)

\* ------------------------------------------------ supersampled resolution
\* the bitmap of a glyph built at factor times the cell size and factor times
\* the line thickness, downsampled to the cell size
SupersampledAt(codepoint, size, thickness, factor) ==
    downsample(buildBoxElements(codepoint, ImageSize(size.width * factor, size.height * factor),
                                thickness * factor).image,
               ImageSize(size.width * factor, size.height * factor), size)

\* C14: the rounded corner U+256D resolved on the supersampling path is the downsampled bitmap
\* built at N times the cell width, N times the cell height and N times the line
\* thickness, N being the supersampling factor in force.
C14_FactorTimesThickness ==
    (last.op = "getDataRef" /\ last.codepoint = 9581 /\ last.path = "supersampled")
        => ResultBuffer = SupersampledAt(last.codepoint, cellSize, lineThickness,
                                         supersamplingFactor(ssaFactorEnv))

\* ------------------------------------------------------- descriptor table
\* box = detail::boxDrawingDefinitions[_codepoint - 0x2500]
ReadDescriptor(codepoint) ==
    /\ last' = Last("descriptor", codepoint, "none", FALSE, Some(BoxAt(codepoint - BoxBase)),
                    FALSE, NullOpt, {}, FALSE)
    /\ UNCHANGED <<others, cellSize, lineThickness, ssaFactorEnv, textureAtlas_, inserts, synthesized>>

TableNext == \E codepoint \in BoxBase..BoxLast : ReadDescriptor(codepoint)
TableSpec == Init /\ [][TableNext]_vars

\* all four edges of a descriptor are NoLine
NoEdges(box) ==
    box.up_ = "NoLine" /\ box.right_ = "NoLine" /\ box.down_ = "NoLine" /\ box.left_ = "NoLine"

\* C15: a descriptor of the table with an arc has no edge and no diagonal, and
\* a descriptor with a diagonal has no edge and no arc.
C15_ArcDiagonalExclusive ==
    last.op = "descriptor"
        => /\ Value(last.result).arc_ # "NoArc"
                => NoEdges(Value(last.result)) /\ Value(last.result).diagonal_ = "NoDiagonal"
           /\ Value(last.result).diagonal_ # "NoDiagonal"
                => NoEdges(Value(last.result)) /\ Value(last.result).arc_ = "NoArc"

C15_Witness ==
    /\ last.op = "descriptor"
    /\ last.codepoint = 9581
    /\ Value(last.result).arc_ = "TopLeft"
    /\ NoEdges(Value(last.result))

\* ---------------------------------------------------------- crispy::indexed
\* crispy::indexed(range): the object iterated; it holds the range, whether
\* the range was an lvalue, a temporary or the result of a call
indexed(a) == [container |-> a]
indexedBegin(rng) == [index |-> 0, iter |-> 0]
indexedEnd(rng) == [index |-> Len(rng.container), iter |-> Len(rng.container)]
\* operator== of the iterators: the positions agree
indexedEqual(x, y) == x.iter = y.iter
\* operator++ leaving the index as it is
indexedIncrement_IterOnly(it) == [index |-> it.index, iter |-> it.iter + 1]
\* operator++
indexedIncrement(it) == [index |-> it.index + 1, iter |-> it.iter + 1]
\* operator*: the pair <<index, element>>
indexedDeref(rng, it) == <<it.index, rng.container[it.iter + 1]>>

\* longest range iterated
MaxRange == 3
Elements == {"a", "b", "c"}
RECURSIVE Ranges(_)
Ranges(n) ==
    IF n = 0 THEN { << >> }
    ELSE Ranges(n - 1) \cup { Append(s, c) : s \in { t \in Ranges(n - 1) : Len(t) = n - 1 }, c \in Elements }
\* how the tests hand the range over: array a; vector { ... }; getVec()
Passings == {"lvalue", "temporary", "call"}

\* the renderer is not in use
RendererIdle ==
    /\ cellSize = ImageSize(1, 1)
    /\ lineThickness = 1
    /\ ssaFactorEnv = NullOpt
    /\ textureAtlas_ = EmptyAtlas
    /\ inserts = [cp \in AllCodepoints |-> 0]
    /\ synthesized = [cp \in AllCodepoints |-> NullOpt]
    /\ last = NoLast
    /\ operands = NoOperands
    /\ SchedulersIdle

\* for (auto const&& [i, c]: crispy::indexed(a)) entered: i = begin(), k = 0
IndexedInit ==
    /\ RendererIdle
    /\ LineIdle
    /\ \E a \in Ranges(MaxRange), passed \in Passings :
          indexedLoop = [a |-> a, passed |-> passed, i |-> indexedBegin(indexed(a)), k |-> 0,
                         pairs |-> << >>]

\* one iteration of the loop: i != end(), the body sees *i, ++k, then ++i
IndexedIterate ==
    /\ ~indexedEqual(indexedLoop.i, indexedEnd(indexed(indexedLoop.a)))
    /\ indexedLoop' = [indexedLoop EXCEPT
                          !.pairs = Append(@, indexedDeref(indexed(indexedLoop.a), indexedLoop.i)),
                          !.k = @ + 1,
                          !.i = indexedIncrement(@)]
    /\ UNCHANGED <<cellSize, lineThickness, ssaFactorEnv, textureAtlas_, inserts, synthesized, last,
                   operands, textureScheduler, returned, scheduler_, atlasMap_, commandCount,
                   executions, line, reflowCall>>

IndexedNext == IndexedIterate
IndexedSpec == IndexedInit /\ [][IndexedNext]_vars

\* C16: after k iterations the loop over indexed(a) has seen the pairs
\* <<0, a[1]>>, ..., <<k - 1, a[k]>> in order, the iterator's index is k, and
\* the iterator equals end() exactly when k is the number of elements.
C16_IndexedPairs ==
    indexedLoop.passed \in Passings
        => /\ Len(indexedLoop.pairs) = indexedLoop.k
           /\ indexedLoop.k <= Len(indexedLoop.a)
           /\ \A n \in 1..indexedLoop.k : indexedLoop.pairs[n] = <<n - 1, indexedLoop.a[n]>>
           /\ indexedLoop.i.index = indexedLoop.k
           /\ indexedEqual(indexedLoop.i, indexedEnd(indexed(indexedLoop.a)))
                 <=> indexedLoop.k = Len(indexedLoop.a)

C16_Witness ==
    /\ indexedLoop.passed = "call"
    /\ indexedLoop.a = <<"a", "b", "c">>
    /\ indexedLoop.pairs = << <<0, "a">>, <<1, "b">>, <<2, "c">> >>
    /\ indexedLoop.k = 3
    /\ indexedEqual(indexedLoop.i, indexedEnd(indexed(indexedLoop.a)))

\* ------------------------------------------------- heavy and double edges
\* U+2501, U+2503: heavy horizontal, heavy vertical;
\* U+2550, U+2551: double horizontal, double vertical
EdgeCodepoints == {9473, 9475, 9552, 9553}
EdgeNext == \E codepoint \in EdgeCodepoints : BuildBoxElements(codepoint)
EdgeSpec == Init /\ [][EdgeNext]_vars

\* the rows and the columns of the bitmap last returned that hold a set pixel
RowsSet == { y \in 0..(cellSize.height - 1) : \E x \in 0..(cellSize.width - 1) : PixelSet(x, y) }
ColumnsSet == { x \in 0..(cellSize.width - 1) : \E y \in 0..(cellSize.height - 1) : PixelSet(x, y) }
\* S is n consecutive numbers
IsBar(S, n) == \E a \in S : S = a..(a + n - 1)
\* S is two runs of n consecutive numbers with n numbers left out between them
IsDoubleBar(S, n) == \E a \in S : S = (a..(a + n - 1)) \cup ((a + 2 * n)..(a + 3 * n - 1))

\* C17: a Heavy edge is a bar 2 x lineThickness thick: U+2501 covers exactly
\* 2 x lineThickness consecutive rows, U+2503 exactly 2 x lineThickness
\* consecutive columns.
C17_HeavyTwiceThickness ==
    (last.op = "buildBoxElements" /\ HasValue(last.result))
        => /\ last.codepoint = 9473 => IsBar(RowsSet, 2 * lineThickness)
           /\ last.codepoint = 9475 => IsBar(ColumnsSet, 2 * lineThickness)

\* C18: a Double edge is two bars lineThickness thick with lineThickness unset
\* pixels between them: in rows for U+2550, in columns for U+2551.
C18_DoubleGap ==
    (last.op = "buildBoxElements" /\ HasValue(last.result))
        => /\ last.codepoint = 9552 => IsDoubleBar(RowsSet, lineThickness)
           /\ last.codepoint = 9553 => IsDoubleBar(ColumnsSet, lineThickness)

\* ------------------------------------------------- RatioBlock intersection
\* the fractions f the primitives are built with, 0 < f <= 1
Fractions == { Th(1, 8), Th(1, 4), Th(1, 2), <<3, 4>>, RatioOne }
\* lower(f), upper(f), left(f), right(f)
Primitives ==
    { lower(f) : f \in Fractions } \cup { upper(f) : f \in Fractions }
    \cup { left(f) : f \in Fractions } \cup { right(f) : f \in Fractions }

\* blockElement(size) | (a * b)
Multiply(a, b) ==
    /\ operands' = <<a, b>>
    /\ last' = Last("operator*", 0, "none", FALSE,
                    Some(DataRef(cellSize, PixmapOrBlock(blockElement(cellSize), RatioBlockMul(a, b)))),
                    FALSE, NullOpt, {}, FALSE)
    /\ UNCHANGED <<indexedLoop, cellSize, lineThickness, ssaFactorEnv, textureAtlas_, inserts,
                   synthesized, textureScheduler, returned, scheduler_, atlasMap_, commandCount,
                   executions, line, reflowCall>>

ProductNext == \E a \in Primitives, b \in Primitives : Multiply(a, b)
ProductSpec == BlockInit /\ [][ProductNext]_vars

\* the indices of the bitmap last returned that are set
SetIndices == { i \in DOMAIN ResultBuffer : ResultBuffer[i] # 0 }

\* C19: the pixels a * b fills are exactly the pixels both a and b fill, and
\* a * b = b * a, for a and b among lower(f), upper(f), left(f), right(f).
C19_ProductIsIntersection ==
    last.op = "operator*"
        => /\ SetIndices = fillBlockWrites(cellSize, operands[1].from, operands[1].to)
                           \cap fillBlockWrites(cellSize, operands[2].from, operands[2].to)
           /\ RatioBlockMul(operands[1], operands[2]) = RatioBlockMul(operands[2], operands[1])

\* ---------------------------------------------------- one eighth blocks
\* buildElements(codepoint) at gridMetrics_.cellSize, image its outcome
BuildElementsDone(codepoint, image) ==
    /\ last' = Last("buildElements", codepoint, IF HasValue(image) THEN "image" ELSE "nullopt", FALSE,
                    IF HasValue(image) THEN Some(DataRef(cellSize, Value(image))) ELSE NullOpt,
                    FALSE, NullOpt, {}, FALSE)
    /\ UNCHANGED <<others, cellSize, lineThickness, ssaFactorEnv, textureAtlas_, inserts, synthesized>>

BuildElements(codepoint) == BuildElementsDone(codepoint, buildElements(codepoint, cellSize))

\* U+1FB76..U+1FB7B (horizontal one eighth block-2 .. -7) and U+1FB81
EighthCodepoints == (129910..129915) \cup {129921}
EighthNext == \E codepoint \in EighthCodepoints : BuildElements(codepoint)
EighthSpec == BlockInit /\ [][EighthNext]_vars

\* the indices of the n-th horizontal one-eighth slab, as horiz_nth and fillBlock give them
EighthSlab(n) ==
    fillBlockWrites(cellSize, horiz_nth(Th(1, 8), n).from, horiz_nth(Th(1, 8), n).to)

\* C20: U+1FB81 fills exactly the 1st, 3rd, 5th and 8th horizontal one-eighth slabs.
C20_Slabs1358 ==
    (last.op = "buildElements" /\ last.codepoint = 129921)
        => /\ HasValue(last.result)
           /\ SetIndices = EighthSlab(1) \cup EighthSlab(3) \cup EighthSlab(5) \cup EighthSlab(8)

\* ---------------------------------------------------------------- diagonals
\* U+2571, U+2572: diagonal(Forward), diagonal(Backward)
DiagonalCodepoints == {9585, 9586}
DiagonalNext == \E codepoint \in DiagonalCodepoints : BuildBoxElements(codepoint)
DiagonalSpec == Init /\ [][DiagonalNext]_vars

\* the ideal column of row y: int(y * w / h) for Forward, int((h - 1 - y) * w / h) for Backward
IdealColumn(codepoint, y) ==
    IF codepoint = 9585
    THEN (y * cellSize.width) \div cellSize.height
    ELSE ((cellSize.height - 1 - y) * cellSize.width) \div cellSize.height

\* C21: every row of U+2571 and U+2572 holds exactly one run of set pixels, it
\* covers the ideal column and is lineThickness wide unless it touches the left
\* or right border, where it may be narrower; no write falls outside the bitmap.
C21_DiagonalRuns ==
    (last.op = "buildBoxElements" /\ last.codepoint \in DiagonalCodepoints)
        => /\ HasValue(last.result)
           /\ ~last.oob
           /\ \A y \in 0..(cellSize.height - 1) :
                 /\ Cardinality(RunStarts(y, TRUE)) = 1
                 /\ PixelSet(IdealColumn(last.codepoint, y), y)
                 /\ \A x \in RunStarts(y, TRUE) :
                       \/ RunWidth(y, x) = lineThickness
                       \/ /\ RunWidth(y, x) < lineThickness
                          /\ (x = 0 \/ x + RunWidth(y, x) = cellSize.width)

\* ------------------------------------------------ the whole box drawing block
\* buildBoxElements for every codepoint of U+2500..U+257F
BoxNext == \E codepoint \in BoxBase..BoxLast : BuildBoxElements(codepoint)
BoxSpec == Init /\ [][BoxNext]_vars

\* C22: buildBoxElements never reaches the dash cases of the per-edge switch
\* (assert(false)) for a codepoint of U+2500..U+257F, and a descriptor with a
\* dash style on one edge has the same style on the opposite edge.
C22_NoDashAbort ==
    (last.op = "buildBoxElements" /\ last.codepoint \in BoxBase..BoxLast)
        => /\ last.path # "assert"
           /\ (BoxAt(last.codepoint - BoxBase).left_ \in DashStyles
               \/ BoxAt(last.codepoint - BoxBase).right_ \in DashStyles)
                 => BoxAt(last.codepoint - BoxBase).left_ = BoxAt(last.codepoint - BoxBase).right_
           /\ (BoxAt(last.codepoint - BoxBase).up_ \in DashStyles
               \/ BoxAt(last.codepoint - BoxBase).down_ \in DashStyles)
                 => BoxAt(last.codepoint - BoxBase).up_ = BoxAt(last.codepoint - BoxBase).down_

\* U+254D (heavy double dash horizontal) is built by the dashed-pair rule
C22_Witness ==
    /\ last.op = "buildBoxElements"
    /\ last.codepoint = 9549
    /\ BoxAt(9549 - BoxBase).left_ = "Heavy2"
    /\ last.path = "image"
    /\ \E i \in DOMAIN ResultBuffer : ResultBuffer[i] = 255

\* ---------------------------------------------------------------------------
\* render(): one glyph of the frame
\* ---------------------------------------------------------------------------

\* the texture scheduler accepts at most this many commands per frame here
MaxScheduled == 2
\* the grid positions (line, column) and colours render() is called with
Positions == { <<0, 0>>, <<1, 2>> }
Colors == { <<255, 128, 0>> }

\* atlas::RenderTexture{ti, x, y, z, color}: pos stands for gridMetrics_.map of
\* the coordinate, the colour channels are the fractions channel / 255 and 1
RenderTexture(ti, pos, color) ==
    [texture |-> ti, pos |-> pos, z |-> 0,
     color |-> << <<color[1], 255>>, <<color[2], 255>>, <<color[3], 255>>, <<1, 1>> >>]

\* render() reporting the handle without scheduling anything
render_NoSchedule(scheduler, data, pos, color) ==
    [scheduler |-> scheduler, returned |-> HasValue(data)]

\* render() after getDataRef returned data: the commands the texture scheduler
\* holds afterwards and the value returned
render(scheduler, data, pos, color) ==
    IF ~HasValue(data)
    THEN [scheduler |-> scheduler, returned |-> FALSE]
    ELSE [scheduler |-> Append(scheduler, RenderTexture(Value(data), pos, color)),
          returned |-> TRUE]

\* render(_line, _column, _codepoint, _color): getDataRef, then the command;
\* an exception of getDataRef leaves render() without a return value
Render(pos, codepoint, color) ==
    /\ Len(textureScheduler) < MaxScheduled
    /\ \E antialiasing \in containsNonCanonicalLines(codepoint) :
        \E out \in { getDataRef(textureAtlas_, codepoint, antialiasing, cellSize, lineThickness,
                                ssaFactorEnv) } :
            /\ textureAtlas_' = out.atlas
            /\ inserts' = IF Built(out.path)
                          THEN [inserts EXCEPT ![codepoint] = Min(2, @ + 1)]
                          ELSE inserts
            /\ synthesized' = IF Built(out.path)
                              THEN [synthesized EXCEPT ![codepoint] = Some(Value(out.result).buffer)]
                              ELSE synthesized
            /\ last' = Last("render", codepoint, out.path, antialiasing, out.result,
                            HasValue(textureAtlas_[codepoint]), synthesized[codepoint], {}, out.oob)
            /\ \E r \in { render(textureScheduler, out.result, pos, color) } :
                  IF out.path = "throw"
                  THEN textureScheduler' = textureScheduler /\ returned' = NullOpt
                  ELSE textureScheduler' = r.scheduler /\ returned' = Some(r.returned)
            /\ UNCHANGED <<collaborators, cellSize, lineThickness, ssaFactorEnv>>

RenderNext == \E pos \in Positions, codepoint \in Codepoints, color \in Colors :
                  Render(pos, codepoint, color)
RenderSpec == Init /\ [][RenderNext]_vars

\* C23: a render() call that obtained a bitmap handle returns true and appends
\* exactly one RenderTexture command, for that handle, to the texture
\* scheduler; a call that obtained none returns false and leaves the
\* scheduler's commands as they were
C23_RenderSchedulesOne ==
    [][last'.op = "render" =>
          /\ HasValue(last'.result) =>
                /\ returned' = Some(TRUE)
                /\ Len(textureScheduler') = Len(textureScheduler) + 1
                /\ SubSeq(textureScheduler', 1, Len(textureScheduler)) = textureScheduler
                /\ textureScheduler'[Len(textureScheduler')].texture = Value(last'.result)
          /\ ~HasValue(last'.result) =>
                /\ returned' = Some(FALSE)
                /\ textureScheduler' = textureScheduler]_vars

\* U+2502 was rendered and scheduled, then the letter A was refused
C23_Witness ==
    /\ last.op = "render"
    /\ last.codepoint = 65
    /\ returned = Some(FALSE)
    /\ Len(textureScheduler) = 1
    /\ textureScheduler[1].texture = Value(textureAtlas_[9474])

\* ---------------------------------------------------------------------------
\* the targets of the writes of box construction
\* ---------------------------------------------------------------------------

\* the pixels <<xi, y>> the fill loop of drawArc writes, pixels being what
\* the two ellipses wrote
drawArcFillPixels(width, height, thickness, arc, pixels) ==
    UNION { drawArcFillRowPixels(width, height, y,
                                 drawArcGap(width, height, thickness, arc, pixels, y)) :
            y \in { r \in 0..(height - 1) :
                      drawArcGap(width, height, thickness, arc, pixels, r) # {} } }

\* every pixel <<x, y>> drawArc (thickness) writes: the ellipses, then the fill
drawArcWrittenPixels(width, height, thickness, arc) ==
    drawArcPixels(width, height, thickness, arc)
    \cup drawArcFillPixels(width, height, thickness, arc,
                           drawArcPixels(width, height, thickness, arc))

\* every pixel <<x, y>> buildBoxElements writes for the descriptor box
buildBoxElementsPixels(box, size, thickness) ==
    LET height == size.height
        width == size.width
        horizontalOffset == Div(height, 2)
        verticalOffset == Div(width, 2)
        lightThickness == thickness
        heavyThickness == thickness * 2
        dashedH == get_dashed_horizontal(box)
        dashedV == get_dashed_vertical(box)
        dashThickness(d) == IF Value(d)[2] = "Heavy" THEN heavyThickness ELSE lightThickness
    IN  IF HasValue(dashedH)
        THEN DashedHorizontalPixels(width, height, Value(dashedH)[1], dashThickness(dashedH))
        ELSE IF HasValue(dashedV)
        THEN DashedVerticalPixels(width, height, Value(dashedV)[1], dashThickness(dashedV))
        ELSE HorizontalEdgePixels(box.left_, 0, Div(width, 2), horizontalOffset,
                                  lightThickness, heavyThickness)
             \cup HorizontalEdgePixels(box.right_, Div(width, 2), width, horizontalOffset,
                                       lightThickness, heavyThickness)
             \cup VerticalEdgePixels(box.down_, 0, Div(height, 2), verticalOffset, lightThickness)
             \cup VerticalEdgePixels(box.up_, Div(height, 2), height, verticalOffset,
                                     lightThickness)
             \cup (IF box.diagonal_ # "NoDiagonal"
                   THEN DiagonalPixels(box.diagonal_, width, height, thickness)
                   ELSE {})
             \cup (IF box.arc_ # "NoArc"
                   THEN drawArcWrittenPixels(width, height, lightThickness, box.arc_)
                   ELSE {})

\* the pixels written when the glyph recorded in last was built
LastBoxPixels == buildBoxElementsPixels(BoxAt(last.codepoint - BoxBase), cellSize, lineThickness)

\* C26: with the thickness below half of the cell's width and height, every
\* write of buildBoxElements for a codepoint of U+2500-U+257F targets a
\* column in 0..w-1 and a row in 0..h-1
C26_WritesInsideCell ==
    (last.op = "buildBoxElements" /\ last.codepoint \in BoxBase..BoxLast
        /\ 0 < lineThickness /\ 2 * lineThickness < cellSize.width
        /\ 2 * lineThickness < cellSize.height)
        => \A p \in LastBoxPixels :
              /\ p[1] \in 0..(cellSize.width - 1)
              /\ p[2] \in 0..(cellSize.height - 1)

\* ---------------------------------------------------------------------------
\* getDataRef over the supported ranges and their neighbours
\* ---------------------------------------------------------------------------

\* every codepoint of the six ranges of renderable(), the codepoints next to
\* each range, the shades U+2591-U+2593 and three codepoints far away
RangeCodepoints ==
    (9120..9127) \cup (9471..9632) \cup (129791..129852) \cup (129903..129932)
    \cup {0, 65, 1114111}

\* getDataRef(codepoint) on the empty atlas of a renderer whose cache was
\* just cleared; the insert histories follow the codepoints of Codepoints only
GetDataRefFresh(codepoint) ==
    /\ textureAtlas_ = EmptyAtlas
    /\ \E antialiasing \in containsNonCanonicalLines(codepoint) :
        \E out \in { getDataRef(textureAtlas_, codepoint, antialiasing, cellSize, lineThickness,
                                ssaFactorEnv) } :
            /\ textureAtlas_' = out.atlas
            /\ last' = Last("getDataRef", codepoint, out.path, antialiasing, out.result,
                            FALSE, NullOpt, {}, out.oob)
            /\ UNCHANGED <<others, cellSize, lineThickness, ssaFactorEnv, inserts, synthesized>>

RangeNext ==
    \/ \E codepoint \in RangeCodepoints : GetDataRefFresh(codepoint)
    \/ ClearCache
RangeSpec == Init /\ [][RangeNext]_vars

\* C24: at every cell geometry with the thickness below half the cell,
\* getDataRef returns a bitmap handle for a codepoint exactly when
\* renderable(codepoint) is true
C24_HandleIffRenderable ==
    last.op = "getDataRef" => (HasValue(last.result) <=> renderable(last.codepoint))

\* U+257F, the last box drawing codepoint, is renderable and was built
C24_Witness ==
    /\ last.op = "getDataRef"
    /\ last.codepoint = 9599
    /\ renderable(9599)
    /\ HasValue(last.result)
    /\ \E i \in DOMAIN ResultBuffer : ResultBuffer[i] = 255

\* C25: the descriptor read for a codepoint of U+2500-U+257F differs, in one
\* of up, right, down, left, diagonal and arc, from the descriptor of every
\* other codepoint of the range
C25_TableInjective ==
    last.op = "descriptor"
        => \A other \in BoxBase..BoxLast :
              other # last.codepoint => BoxAt(other - BoxBase) # Value(last.result)

\* ---------------------------------------------------------------------------
\* corners
\* ---------------------------------------------------------------------------

\* U+250C-U+251B: one horizontal and one vertical edge, each Light or Heavy
CornerCodepoints == 9484..9499
CornerNext == \E codepoint \in CornerCodepoints : BuildBoxElements(codepoint)
CornerSpec == Init /\ [][CornerNext]_vars

\* the set pixels <<x, y>> of the bitmap last returned
SetPixels ==
    { p \in (0..(cellSize.width - 1)) \X (0..(cellSize.height - 1)) : PixelSet(p[1], p[2]) }
\* the pixels sharing an edge with p
EdgeNeighbours(p) ==
    { <<p[1] + 1, p[2]>>, <<p[1] - 1, p[2]>>, <<p[1], p[2] + 1>>, <<p[1], p[2] - 1>> }
\* the pixels of S reachable from region over shared edges
RECURSIVE Flood(_, _)
Flood(region, S) ==
    LET grown == region \cup { q \in S : \E p \in region : q \in EdgeNeighbours(p) }
    IN  IF grown = region THEN region ELSE Flood(grown, S)
\* S is one 4-connected region
FourConnected(S) == S = {} \/ Flood({ CHOOSE p \in S : TRUE }, S) = S

\* C27: the set pixels of a corner glyph U+250C-U+251B form one 4-connected
\* region: its horizontal and its vertical bar overlap or share a pixel edge
C27_CornerConnected ==
    (last.op = "buildBoxElements" /\ last.codepoint \in CornerCodepoints /\ HasValue(last.result))
        => FourConnected(SetPixels)

\* ---------------------------------------------------------------------------
\* crispy::atlas::Renderer: schedule() and execute()
\* ---------------------------------------------------------------------------

\* commands handed to schedule() in total, commands per schedule() call and
\* execute() calls
MaxCommands == 3
MaxBatch == 2
MaxExecutions == 2

Kinds == {"CreateAtlas", "UploadTexture", "RenderTexture", "DestroyAtlas"}
AtlasIds == {0, 1}
\* a command: its alternative of the Command variant, the atlas it names and
\* (history) its position among all commands ever scheduled
Command(kind, atlas, id) == [kind |-> kind, atlas |-> atlas, id |-> id]
\* the vectors schedule() can be called with, without the ids
Batches(kinds) ==
    UNION { [1..n -> kinds \X AtlasIds] : n \in 1..MaxBatch }

\* ExecutionScheduler::operator()(command): emplace_back into the vector of
\* the command's alternative
Visit(scheduler, command) ==
    CASE command.kind = "CreateAtlas" ->
            [scheduler EXCEPT !.createAtlases = Append(@, command)]
      [] command.kind = "UploadTexture" ->
            [scheduler EXCEPT !.uploadTextures = Append(@, command)]
      [] command.kind = "RenderTexture" ->
            [scheduler EXCEPT !.renderTextures = Append(@, command)]
      [] command.kind = "DestroyAtlas" ->
            [scheduler EXCEPT !.destroyAtlases = Append(@, command)]

\* schedule(_commands): visit(*scheduler_, command) for each command in turn
RECURSIVE schedule(_, _)
schedule(scheduler, commands) ==
    IF commands = << >> THEN scheduler
    ELSE schedule(Visit(scheduler, Head(commands)), Tail(commands))

\* the batch with the ids count + 1, count + 2, ... attached
Numbered(batch, count) ==
    [i \in 1..Len(batch) |-> Command(batch[i][1], batch[i][2], count + i)]

\* the orders std::sort can leave v in: its permutations ascending by atlas
SortedByAtlas(v) ==
    { s \in [1..Len(v) -> { v[i] : i \in 1..Len(v) }] :
        /\ \A i \in 1..Len(v) : \E j \in 1..Len(v) : s[j] = v[i]
        /\ \A i \in 1..(Len(v) - 1) : ~(s[i + 1].atlas < s[i].atlas) }

\* execute() destroying the atlases before it renders
executeOrder_DestroyFirst(scheduler, renderTextures) ==
    scheduler.createAtlases \o scheduler.uploadTextures \o scheduler.destroyAtlases
    \o renderTextures

\* execute(): the commands in the order of the four for_each loops,
\* renderTextures being the render commands after std::sort
executeOrder(scheduler, renderTextures) ==
    scheduler.createAtlases \o scheduler.uploadTextures \o renderTextures
    \o scheduler.destroyAtlases

\* createAtlas, uploadTexture (atlasMap_[atlas] inserts the key), renderTexture
\* and destroyAtlas applied to atlasMap_ in the order processed
RECURSIVE Process(_, _)
Process(atlasMap, processed) ==
    IF processed = << >> THEN atlasMap
    ELSE Process(CASE Head(processed).kind \in {"CreateAtlas", "UploadTexture"} ->
                         atlasMap \cup { Head(processed).atlas }
                   [] Head(processed).kind = "DestroyAtlas" ->
                         atlasMap \ { Head(processed).atlas }
                   [] OTHER -> atlasMap,
                 Tail(processed))

\* ExecutionScheduler::clear(): createAtlases, uploadTextures, vecs and
\* destroyAtlases are cleared (vecs is never filled)
clear(scheduler) ==
    [scheduler EXCEPT !.createAtlases = << >>, !.uploadTextures = << >>,
                      !.destroyAtlases = << >>]

\* Renderer::schedule(std::vector<Command> const&) and
\* Renderer::schedule(std::vector<DestroyAtlas> const&): both hand every
\* command of the vector to the scheduler
Schedule(batch) ==
    /\ commandCount + Len(batch) <= MaxCommands
    /\ scheduler_' = schedule(scheduler_, Numbered(batch, commandCount))
    /\ commandCount' = commandCount + Len(batch)
    /\ UNCHANGED <<cellSize, lineThickness, ssaFactorEnv, textureAtlas_, inserts, synthesized, last,
                   indexedLoop, operands, textureScheduler, returned, atlasMap_, executions,
                   line, reflowCall>>

\* Renderer::execute(): the four loops, then scheduler_->clear()
Execute ==
    /\ Len(executions) < MaxExecutions
    /\ \E renderTextures \in SortedByAtlas(scheduler_.renderTextures) :
        /\ executions' = Append(executions, executeOrder(scheduler_, renderTextures))
        /\ atlasMap_' = Process(atlasMap_, executeOrder(scheduler_, renderTextures))
        /\ scheduler_' = clear([scheduler_ EXCEPT !.renderTextures = renderTextures])
    /\ UNCHANGED <<cellSize, lineThickness, ssaFactorEnv, textureAtlas_, inserts, synthesized, last,
                   indexedLoop, operands, textureScheduler, returned, commandCount, line,
                   reflowCall>>

AtlasInit == RendererIdle /\ LineIdle /\ indexedLoop = NoLoop
AtlasNext ==
    \/ \E batch \in Batches(Kinds) : Schedule(batch)
    \/ Execute
AtlasSpec == AtlasInit /\ [][AtlasNext]_vars

\* the position of a command's kind in the order of execute()
KindRank(kind) ==
    CASE kind = "CreateAtlas" -> 1
      [] kind = "UploadTexture" -> 2
      [] kind = "RenderTexture" -> 3
      [] kind = "DestroyAtlas" -> 4

\* C28: in every execute() each CreateAtlas is processed before each
\* UploadTexture, each UploadTexture before each RenderTexture and each
\* RenderTexture before each DestroyAtlas, whatever the order of scheduling
C28_ExecuteOrder ==
    \A e \in 1..Len(executions) :
        \A i, j \in 1..Len(executions[e]) :
            i < j => KindRank(executions[e][i].kind) <= KindRank(executions[e][j].kind)

\* scheduled as DestroyAtlas, RenderTexture, CreateAtlas; processed as
\* CreateAtlas, RenderTexture, DestroyAtlas
C28_Witness ==
    /\ Len(executions) >= 1
    /\ Len(executions[1]) = 3
    /\ executions[1][1].kind = "CreateAtlas" /\ executions[1][1].id = 3
    /\ executions[1][2].kind = "RenderTexture" /\ executions[1][2].id = 2
    /\ executions[1][3].kind = "DestroyAtlas" /\ executions[1][3].id = 1

\* C29: when execute() returns the scheduler holds no command, and no
\* command was processed by this execute() and by an earlier one as well
C29_NothingPending ==
    [][Len(executions') > Len(executions) =>
          /\ scheduler_' = EmptyScheduler
          /\ \A e \in 1..Len(executions) :
                \A i \in 1..Len(executions[e]), j \in 1..Len(executions'[Len(executions')]) :
                    executions[e][i].id # executions'[Len(executions')][j].id]_vars

\* ---------------------------------------------------------------------------
\* terminal::Line::reflow
\* ---------------------------------------------------------------------------

\* the longest line and the largest column count reflow() is called with
MaxColumns == 3
\* a cell is empty (0) or holds a character
Cells == {0, 1, 2}
CellEmpty(cell) == cell = 0
TextLines ==
    { [buffer |-> b, wrappable |-> w] :
        b \in UNION { [1..n -> Cells] : n \in 0..MaxColumns }, w \in BOOLEAN }

\* Line::size() of the inflated line: the number of cells of its buffer
size(l) == Len(l.buffer)
\* Line::wrappable()
wrappable(l) == l.wrappable

\* buffer.resize(n): cut after n cells or padded with empty cells
Resize(buffer, n) ==
    [i \in 1..n |-> IF i <= Len(buffer) THEN buffer[i] ELSE 0]

\* reflowEnd: the end of the buffer moved back over its trailing empty
\* cells, not further than reflowStart
RECURSIVE ReflowEnd(_, _, _)
ReflowEnd(buffer, reflowStart, reflowEnd) ==
    IF reflowEnd # reflowStart /\ CellEmpty(buffer[reflowEnd])
    THEN ReflowEnd(buffer, reflowStart, reflowEnd - 1)
    ELSE reflowEnd

ReflowResult(l, removedColumns) == [line |-> l, removedColumns |-> removedColumns]

\* reflow() shrinking a wrappable line without erasing the removed cells
reflow_KeepTail(l, newColumnCount) ==
    IF newColumnCount < size(l) /\ wrappable(l)
    THEN ReflowResult(l, SubSeq(l.buffer, newColumnCount + 1,
                                ReflowEnd(l.buffer, newColumnCount, Len(l.buffer))))
    ELSE ReflowResult([l EXCEPT !.buffer = Resize(@, newColumnCount)], << >>)

\* Line::reflow(_newColumnCount): the line afterwards and the cells returned
reflow(l, newColumnCount) ==
    IF newColumnCount = size(l)
    THEN ReflowResult(l, << >>)
    ELSE IF newColumnCount > size(l)
    THEN ReflowResult([l EXCEPT !.buffer = Resize(@, newColumnCount)], << >>)
    ELSE IF wrappable(l)
    THEN ReflowResult([l EXCEPT !.buffer = SubSeq(@, 1, newColumnCount)],
                      SubSeq(l.buffer, newColumnCount + 1,
                             ReflowEnd(l.buffer, newColumnCount, Len(l.buffer))))
    ELSE ReflowResult([l EXCEPT !.buffer = Resize(@, newColumnCount)], << >>)

Reflow(newColumnCount) ==
    /\ \E r \in { reflow(line, newColumnCount) } :
        /\ line' = r.line
        /\ reflowCall' = [called |-> TRUE, n |-> newColumnCount, size |-> size(line),
                          wrappable |-> wrappable(line), removedColumns |-> r.removedColumns]
    /\ UNCHANGED <<cellSize, lineThickness, ssaFactorEnv, textureAtlas_, inserts, synthesized, last,
                   indexedLoop, operands, textureScheduler, returned, scheduler_, atlasMap_,
                   commandCount, executions>>

LineInit ==
    /\ RendererIdle
    /\ indexedLoop = NoLoop
    /\ line \in TextLines
    /\ reflowCall = NoReflow
LineNext == \E newColumnCount \in 0..MaxColumns : Reflow(newColumnCount)
LineSpec == LineInit /\ [][LineNext]_vars

\* C30: after reflow(n) the line's size is n; cells are returned only when
\* the line was wrappable and n was below its size, otherwise the result is empty
C30_ReflowSize ==
    reflowCall.called
        => /\ size(line) = reflowCall.n
           /\ reflowCall.removedColumns # << >>
                => reflowCall.wrappable /\ reflowCall.n < reflowCall.size
           /\ ~(reflowCall.wrappable /\ reflowCall.n < reflowCall.size)
                => reflowCall.removedColumns = << >>

\* a wrappable line of three cells shrunk to one: the filled cell behind the
\* cut is returned, the trailing empty one is not
C30_Witness ==
    /\ reflowCall.called
    /\ reflowCall.wrappable
    /\ reflowCall.size = 3
    /\ reflowCall.n = 1
    /\ reflowCall.removedColumns = <<2>>
    /\ line.buffer = <<1>>

=============================================================================
